---- MODULE Spec2Model ----
(***************************************************************************)
(* Model of the GHES schedule scanner (younsl/gss, Go revision).          *)
(* The core is Scanner.ScanScheduledWorkflows in pkg/scanner/scanner.go:  *)
(* a paginated repository listing, a bounded fan-out of one goroutine per *)
(* repository, mutex-guarded aggregation, and the returned ScanResult.    *)
(***************************************************************************)
EXTENDS Integers, Sequences, FiniteSets, TLC

\* ------------------------------------------------------------------ bounds
\* Number of repositories the organization can list over all pages.
MaxRepos == 2
\* Largest concurrency limit the Scanner is constructed with.
MaxK == 2
\* Largest number of listing pages requested in one invocation.
MaxPages == 2
MaxEntries == 3

\* The largest MaxRetries a Checker is configured with.
MaxAttempts == 3

\* The largest numeric hour field of a schedule given to convertToKST.
MaxHour == 25

\* --------------------------------------------------------------- universes
\* Repository names, ascending as the listing sorts them (full_name asc).
RepoName(i) == IF i = 1 THEN "repoA" ELSE IF i = 2 THEN "repoB"
               ELSE IF i = 3 THEN "repoC" ELSE IF i = 4 THEN "repoD" ELSE "repoE"

RepoIds == 1..MaxRepos

RepoNames == {RepoName(i) : i \in RepoIds}

\* Repositories the remote may report as archived.
ArchivedCandidates == {"repoA"}

\* The archived flags a page of n repositories can carry, the page
\* starting after the first `before` repositories.
ArchivedFlags(before, n) ==
    {f \in [1..n -> BOOLEAN] :
        \A i \in 1..n : f[i] => RepoName(before + i) \in ArchivedCandidates}

\* ------------------------------------------------- exclusion file (NewScanner)
\* strings.TrimSpace on the lines the exclusion file can hold.
TrimSpace(line) ==
    CASE line = " repoB "  -> "repoB"
      [] line = "repoB\r"  -> "repoB"
      [] line = "\trepoB"  -> "repoB"
      [] line = "   "      -> ""
      [] OTHER             -> line

\* Contents of /etc/gss/exclude-repos.txt, already split on "\n".
\* exists = FALSE is a missing file, readable = FALSE a failed ReadFile.
ExcludeFiles ==
    { [exists |-> FALSE, readable |-> FALSE, lines |-> <<>>],
      [exists |-> TRUE,  readable |-> FALSE, lines |-> <<"repoB">>],
      [exists |-> TRUE,  readable |-> TRUE,  lines |-> <<"", "   ">>],
      [exists |-> TRUE,  readable |-> TRUE,  lines |-> <<" repoB ", "">>],
      [exists |-> TRUE,  readable |-> TRUE,  lines |-> <<"repoB\r", "", "repoB">>],
      [exists |-> TRUE,  readable |-> TRUE,  lines |-> <<"repoA", "\trepoB">>] }

\* The excludedMap NewScanner builds from the file.
NewScannerExcluded(file) ==
    IF file.exists /\ file.readable
    THEN { TrimSpace(file.lines[i]) : i \in DOMAIN file.lines } \ {""}
    ELSE {}

\* ------------------------------------------------------- workflow documents
\* A workflow file as yaml.Unmarshal sees it.  isMap = FALSE is a document
\* that does not decode into map[string]interface{} ("invalid yaml").
\* onKind / schedKind are the dynamic types of workflow["on"] and
\* on["schedule"]; entries are the elements of the schedule array.
EntryCron(c)  == [isMap |-> TRUE,  cronKind |-> "string", cron |-> c]
EntryNoCron   == [isMap |-> TRUE,  cronKind |-> "absent", cron |-> ""]
EntryIntCron  == [isMap |-> TRUE,  cronKind |-> "int",    cron |-> ""]
EntryScalar   == [isMap |-> FALSE, cronKind |-> "absent", cron |-> ""]

DocInvalid    == [isMap |-> FALSE, onKind |-> "absent", schedKind |-> "absent", entries |-> <<>>]
DocNoOn       == [isMap |-> TRUE,  onKind |-> "absent", schedKind |-> "absent", entries |-> <<>>]
DocOnString   == [isMap |-> TRUE,  onKind |-> "string", schedKind |-> "absent", entries |-> <<>>]
DocNoSchedule == [isMap |-> TRUE,  onKind |-> "map",    schedKind |-> "absent", entries |-> <<>>]
DocEmptySched == [isMap |-> TRUE,  onKind |-> "map",    schedKind |-> "list",   entries |-> <<>>]
DocOneCron    == [isMap |-> TRUE,  onKind |-> "map",    schedKind |-> "list",
                  entries |-> <<EntryCron("0 0 * * *")>>]
DocTwoCron    == [isMap |-> TRUE,  onKind |-> "map",    schedKind |-> "list",
                  entries |-> <<EntryCron("30 1 * * 1"), EntryCron("0 0 * * *")>>]
DocMixed      == [isMap |-> TRUE,  onKind |-> "map",    schedKind |-> "list",
                  entries |-> <<EntryNoCron, EntryScalar, EntryIntCron>>]

\* Mutant: the type assertion on the cron field is missing.
RECURSIVE extractEntriesNoTypeTest(_)
extractEntriesNoTypeTest(entries) ==
    IF entries = <<>> THEN <<>>
    ELSE LET e == Head(entries)
         IN (IF e.isMap THEN <<e.cron>> ELSE <<>>)
            \o extractEntriesNoTypeTest(Tail(entries))

\* The loop of extractSchedules over the schedule array.
RECURSIVE extractEntries(_)
extractEntries(entries) ==
    IF entries = <<>> THEN <<>>
    ELSE LET e == Head(entries)
         IN (IF e.isMap /\ e.cronKind = "string" THEN <<e.cron>> ELSE <<>>)
            \o extractEntries(Tail(entries))

\* extractSchedules: the cron strings of on.schedule, in document order.
extractSchedules(doc) ==
    IF doc.onKind = "map" /\ doc.schedKind = "list"
    THEN extractEntries(doc.entries)
    ELSE <<>>

\* extractSchedulesWithValidation: parse, then extract.
extractSchedulesWithValidation(doc) ==
    IF ~doc.isMap
    THEN [err |-> TRUE,  schedules |-> <<>>]
    ELSE [err |-> FALSE, schedules |-> extractSchedules(doc)]

NotScheduled == [isScheduled |-> FALSE, schedule |-> ""]

\* Mutant: the len(schedules) == 0 test is missing, so a document that
\* parses is always reported as scheduled.
checkWorkflowScheduleNoEmptyTest(wf) ==
    IF wf.content = "fetcherr" THEN NotScheduled
    ELSE IF wf.content = "decodeerr" THEN NotScheduled
    ELSE IF ~wf.doc.isMap THEN NotScheduled
    ELSE LET r == extractSchedulesWithValidation(wf.doc)
         IN IF r.err
            THEN NotScheduled
            ELSE [isScheduled |-> TRUE,
                  schedule |-> IF Len(r.schedules) = 0 THEN "" ELSE r.schedules[1]]

\* checkWorkflowSchedule: (isScheduled, schedule) for one listed workflow.
\* wf.content is the outcome of GetContents / GetContent.
checkWorkflowSchedule(wf) ==
    IF wf.content = "fetcherr" THEN NotScheduled
    ELSE IF wf.content = "decodeerr" THEN NotScheduled
    ELSE IF ~wf.doc.isMap THEN NotScheduled
    ELSE LET r == extractSchedulesWithValidation(wf.doc)
         IN IF r.err \/ Len(r.schedules) = 0
            THEN NotScheduled
            ELSE [isScheduled |-> TRUE, schedule |-> r.schedules[1]]

\* ------------------------------------------------------------ remote data
\* One workflow as the remote serves it: the ListWorkflows entry, the
\* outcome of GetContents/GetContent for its path ("ok", "fetcherr",
\* "decodeerr") with the document, the outcome of ListWorkflowRuns
\* ("err", "none" or the status of the newest run), of ListCommits
\* ("err", "none", "noauthor": commits[0].Author is nil, "anonymous": no
\* login and no commit author, "nologin": no login, "login") and of
\* GetUser ("err", "nil", "ok").
Workflow(n, i, c, d, r, cm, a, u) ==
    [name |-> n, id |-> i, path |-> n, content |-> c, doc |-> d,
     runs |-> r, commits |-> cm, author |-> a, user |-> u]

WfSched    == Workflow("nightly.yml",  1, "ok", DocOneCron, "completed", "login", "alice", "ok")
WfTwoCron  == Workflow("weekly.yml",   2, "ok", DocTwoCron, "none", "none", "", "ok")
WfNoSched  == Workflow("ci.yml",       3, "ok", DocNoSchedule, "completed", "login", "bob", "ok")
WfMixed    == Workflow("mixed.yml",    4, "ok", DocMixed, "completed", "login", "bob", "ok")
WfInvalid  == Workflow("broken.yml",   5, "ok", DocInvalid, "completed", "login", "bob", "ok")
WfFetchErr == Workflow("gone.yml",     6, "fetcherr", DocOneCron, "completed", "login", "bob", "ok")
WfDegraded == Workflow("degraded.yml", 7, "ok", DocOneCron, "err", "nologin", "carol", "err")

\* What the remote answers for one repository: ListWorkflows fails, or
\* returns these workflows.
Profile(e, w) == [listErr |-> e, workflows |-> w]

\* Nothing served yet.
NoProfile == Profile(FALSE, <<>>)

\* ListWorkflows fails.
PListErr  == Profile(TRUE,  <<>>)
\* No workflow yields a schedule: no trigger, an unparsable document, a
\* schedule array without cron strings, a failed content fetch.
PQuiet    == Profile(FALSE, <<WfNoSched, WfInvalid, WfMixed, WfFetchErr>>)
\* One scheduled workflow.
PSched    == Profile(FALSE, <<WfSched>>)

Profiles == {PListErr, PQuiet, PSched}

\* ----------------------------------------------------------- scanRepository
\* lastStatus: the zero value "" unless a run exists.
LastStatusOf(wf) ==
    IF wf.runs \in {"err", "none"} THEN "" ELSE wf.runs

\* Mutant: the branch for an empty commit list is missing, the two
\* variables keep their zero values.
CommitterOfNoElse(wf) ==
    IF wf.commits \in {"err", "none", "noauthor"}
    THEN [lastCommitter |-> "", isActiveUser |-> FALSE]
    ELSE IF wf.commits = "anonymous"
    THEN [lastCommitter |-> "Unknown", isActiveUser |-> FALSE]
    ELSE IF wf.commits = "login"
    THEN [lastCommitter |-> wf.author, isActiveUser |-> (wf.user = "ok")]
    ELSE [lastCommitter |-> wf.author, isActiveUser |-> FALSE]

\* (lastCommitter, isActiveUser) of scanRepository's commit/user block.
CommitterOf(wf) ==
    IF wf.commits \in {"err", "none", "noauthor", "anonymous"}
    THEN [lastCommitter |-> "Unknown", isActiveUser |-> FALSE]
    ELSE IF wf.commits = "login"
    THEN [lastCommitter |-> wf.author, isActiveUser |-> (wf.user = "ok")]
    ELSE [lastCommitter |-> wf.author, isActiveUser |-> FALSE]

WorkflowInfo(repo, wf, schedule) ==
    [RepoName         |-> repo,
     WorkflowName     |-> wf.name,
     WorkflowID       |-> wf.id,
     WorkflowFileName |-> wf.path,
     CronSchedules    |-> <<schedule>>,
     LastStatus       |-> LastStatusOf(wf),
     LastCommitter    |-> CommitterOf(wf).lastCommitter,
     IsActiveUser     |-> CommitterOf(wf).isActiveUser]

RECURSIVE scanWorkflows(_, _)
scanWorkflows(repo, wfs) ==
    IF wfs = <<>> THEN <<>>
    ELSE LET wf == Head(wfs)
             c  == checkWorkflowSchedule(wf)
         IN (IF c.isScheduled THEN <<WorkflowInfo(repo, wf, c.schedule)>> ELSE <<>>)
            \o scanWorkflows(repo, Tail(wfs))

\* Mutant: a failed ListWorkflowRuns of a scheduled workflow is returned
\* as the repository's error.
scanRepositoryRunsFatal(repo, profile) ==
    IF profile.listErr
       \/ \E i \in DOMAIN profile.workflows :
             /\ checkWorkflowSchedule(profile.workflows[i]).isScheduled
             /\ profile.workflows[i].runs = "err"
    THEN [err |-> TRUE,  workflows |-> <<>>]
    ELSE [err |-> FALSE, workflows |-> scanWorkflows(repo, profile.workflows)]

\* scanRepository: (scheduledWorkflows, err) for one repository.
scanRepository(repo, profile) ==
    IF profile.listErr
    THEN [err |-> TRUE,  workflows |-> <<>>]
    ELSE [err |-> FALSE, workflows |-> scanWorkflows(repo, profile.workflows)]

\* The remote calls scanRepository makes for one listed workflow, in order.
Call(op, wf) == [op |-> op, wf |-> wf.id]

\* Mutant: run history, commits and committer are fetched before the
\* schedule is looked at.
workflowCallsEager(wf) ==
    <<Call("GetContents", wf), Call("ListWorkflowRuns", wf), Call("ListCommits", wf)>>
    \o (IF wf.commits = "login" THEN <<Call("GetUser", wf)>> ELSE <<>>)

workflowCalls(wf) ==
    <<Call("GetContents", wf)>>
    \o (IF checkWorkflowSchedule(wf).isScheduled
        THEN <<Call("ListWorkflowRuns", wf), Call("ListCommits", wf)>>
             \o (IF wf.commits = "login" THEN <<Call("GetUser", wf)>> ELSE <<>>)
        ELSE <<>>)

RECURSIVE workflowsCalls(_)
workflowsCalls(wfs) ==
    IF wfs = <<>> THEN <<>>
    ELSE workflowCalls(Head(wfs)) \o workflowsCalls(Tail(wfs))

\* The remote calls of one scanRepository, in order.
scanCalls(profile) ==
    <<[op |-> "ListWorkflows", wf |-> 0]>>
    \o (IF profile.listErr THEN <<>> ELSE workflowsCalls(profile.workflows))

\* -------------------------------------------------------------------- state
VARIABLES
    concurrentScans,  \* Scanner.concurrentScans
    excludedRepos,    \* Scanner.excludedRepos
    pc,               \* position of ScanScheduledWorkflows
    optsPage,         \* opts.Page
    repos,            \* repos of the page being processed
    nextPage,         \* resp.NextPage of that page
    idx,              \* position of the range loop over repos
    totalRepos,
    semaphore,        \* number of tokens in the page's channel
    wg,               \* WaitGroup counter
    activeRoutines,
    maxRoutines,
    results,
    resultMutex,      \* holder of resultMutex, "" when unlocked
    scanErrors,
    errorMutex,       \* holder of errorMutex, "" when unlocked
    ret,              \* what ScanScheduledWorkflows returned
    tpc,              \* position of each repository's goroutine
    routines,         \* goroutine-local result of the atomic add
    loaded,           \* goroutine-local atomic.LoadInt32(&maxRoutines)
    workflows,        \* goroutine-local result of scanRepository
    scanErr,          \* goroutine-local err of scanRepository
    snapshot,         \* slice value a goroutine read before its append
    listed,           \* history: every repository the listing returned
    served,           \* history: the remote's answers to each scan
    scanned,          \* history: repositories ListWorkflows was called for
    pagesRequested,   \* history: opts.Page of each ListByOrg call, its outcome and resp.NextPage
    calls,            \* history: the remote calls of each repository's scan
    launches,         \* history: the repositories a goroutine was started for
    peak,             \* history: the largest number of goroutines in flight at once
    input,            \* the argument of the function under test
    output,           \* its result, NoOutput before the call
    env,              \* the environment run() reads
    cfg,              \* run's Config
    rpc,              \* position of run()
    runErr,           \* the error run() returned, "" for nil
    runLog,           \* history: the collaborators run() has invoked
    checkerConfig,    \* Checker.config
    cpc,              \* position of MustVerifyConnectivity
    attempt,          \* attempt of VerifyConnectivity's loop
    connLog,          \* history: the responses and sleeps of VerifyConnectivity
    connErr,          \* what VerifyConnectivity returned, "" for nil
    canvasConfig,     \* apiToken, channelID and canvasID of the CanvasPublisher
    upc,              \* position of PublishScanResult and updateCanvas
    canvasAttempt,    \* attempt of updateCanvas's loop
    currentBackoff,   \* currentBackoff of updateCanvas, in seconds
    ctx,              \* the context updateCanvas runs under
    sent,             \* history: the outcome of every request updateCanvas sent
    waited,           \* history: the waits updateCanvas completed, in seconds
    expiredAt,        \* history: where updateCanvas was when ctx expired
    canvasErr         \* what the publisher returned, "" for nil

scannerVars == <<concurrentScans, excludedRepos>>
mainVars    == <<pc, optsPage, repos, nextPage, idx, totalRepos, ret>>
sharedVars  == <<semaphore, wg, activeRoutines, maxRoutines, results,
                 resultMutex, scanErrors, errorMutex>>
taskVars    == <<tpc, routines, loaded, workflows, scanErr, snapshot>>
historyVars == <<listed, served, scanned, pagesRequested, calls, launches, peak>>
runVars     == <<env, cfg, rpc, runErr, runLog>>
pureVars    == <<input, output>>
connVars    == <<checkerConfig, cpc, attempt, connLog, connErr>>
canvasVars  == <<canvasConfig, upc, canvasAttempt, currentBackoff, ctx, sent,
                 waited, expiredAt, canvasErr>>

vars == <<canvasVars, connVars, pureVars, runVars, scannerVars, mainVars, sharedVars,
          taskVars, historyVars>>

\* No function is under test.
NoInput == "none"

NoOutput == [called |-> FALSE, value |-> <<>>]

\* The environment and Config before run() has read anything.
NoEnv == [GITHUB_ORG |-> "", GITHUB_TOKEN |-> "", CONCURRENT_SCANS |-> "",
          PUBLISHER_TYPE |-> ""]

NoConfig == [GitHubOrganization |-> "", GitHubToken |-> "",
             ConcurrentScans |-> 0, PublisherType |-> ""]

NoReturn == [returned |-> FALSE, resultNil |-> TRUE, Workflows |-> <<>>,
             TotalRepos |-> 0, ExcludedReposCount |-> 0,
             MaxConcurrentScans |-> 0, err |-> ""]

Max(a, b) == IF a >= b THEN a ELSE b

\* No Checker has been built.
NoCheckerConfig == [BaseURL |-> "", MaxRetries |-> 0]

ConnIdle ==
    /\ checkerConfig = NoCheckerConfig
    /\ cpc = "idle"
    /\ attempt = 0
    /\ connLog = <<>>
    /\ connErr = ""

\* No CanvasPublisher has been built.
NoCanvasConfig == [apiToken |-> <<>>, channelID |-> "", canvasID |-> ""]

NotExpired == [at |-> "none", sent |-> 0]

CanvasIdle ==
    /\ canvasConfig = NoCanvasConfig
    /\ upc = "idle"
    /\ canvasAttempt = 0
    /\ currentBackoff = 0
    /\ ctx = "background"
    /\ sent = <<>>
    /\ waited = <<>>
    /\ expiredAt = NotExpired
    /\ canvasErr = ""

\* NewScanner followed by the locals of ScanScheduledWorkflows; the Scanner
\* is driven directly and the variables of run() stay idle.
Init ==
    /\ concurrentScans \in 1..MaxK
    /\ \E file \in ExcludeFiles : excludedRepos = NewScannerExcluded(file)
    /\ pc = "list"
    /\ optsPage = 0
    /\ repos = <<>>
    /\ nextPage = 0
    /\ idx = 1
    /\ totalRepos = 0
    /\ semaphore = 0
    /\ wg = 0
    /\ activeRoutines = 0
    /\ maxRoutines = 0
    /\ results = <<>>
    /\ resultMutex = ""
    /\ scanErrors = <<>>
    /\ errorMutex = ""
    /\ ret = NoReturn
    /\ tpc = [r \in RepoNames |-> "none"]
    /\ routines = [r \in RepoNames |-> 0]
    /\ loaded = [r \in RepoNames |-> 0]
    /\ workflows = [r \in RepoNames |-> <<>>]
    /\ scanErr = [r \in RepoNames |-> FALSE]
    /\ snapshot = [r \in RepoNames |-> <<>>]
    /\ listed = <<>>
    /\ served = [r \in RepoNames |-> NoProfile]
    /\ scanned = {}
    /\ pagesRequested = <<>>
    /\ calls = [r \in RepoNames |-> <<>>]
    /\ launches = <<>>
    /\ peak = 0
    /\ input = NoInput
    /\ output = NoOutput
    /\ ConnIdle
    /\ CanvasIdle
    /\ env = NoEnv
    /\ cfg = NoConfig
    /\ rpc = "scanning"
    /\ runErr = ""
    /\ runLog = <<>>

\* ---------------------------------------------- ScanScheduledWorkflows (main)
\* A goroutine that was launched and has not yet given its slot back.
InFlight(r) == tpc[r] \notin {"none", "wgdone", "finished"}

InFlightSet == {r \in RepoNames : InFlight(r)}

\* Mutant: a listing failure returns what was collected so far together
\* with the error.
ListByOrgFailPartial ==
    /\ pc = "list"
    /\ pagesRequested' = Append(pagesRequested, [page |-> optsPage, ok |-> FALSE, next |-> 0])
    /\ ret' = [returned |-> TRUE, resultNil |-> FALSE, Workflows |-> results,
               TotalRepos |-> totalRepos, ExcludedReposCount |-> 0,
               MaxConcurrentScans |-> maxRoutines,
               err |-> "failed to list repositories"]
    /\ pc' = "returned"
    /\ UNCHANGED <<canvasVars, connVars, pureVars, runVars, scannerVars, optsPage, repos, nextPage, idx, totalRepos,
                   sharedVars, taskVars, listed, served, scanned, calls, launches, peak>>

\* s.client.ListByOrg returns an error: return nil, err.
ListByOrgFail ==
    /\ pc = "list"
    /\ pagesRequested' = Append(pagesRequested, [page |-> optsPage, ok |-> FALSE, next |-> 0])
    /\ ret' = [NoReturn EXCEPT !.returned = TRUE,
                               !.err = "failed to list repositories"]
    /\ pc' = "returned"
    /\ UNCHANGED <<canvasVars, connVars, pureVars, runVars, scannerVars, optsPage, repos, nextPage, idx, totalRepos,
                   sharedVars, taskVars, listed, served, scanned, calls, launches, peak>>

\* Mutant: the count is overwritten by the size of the latest page.
AddPageOverwrite(total, n) == n

\* totalRepos += len(repos)
AddPage(total, n) == total + n

\* s.client.ListByOrg returns a page of n repositories and resp.NextPage;
\* totalRepos += len(repos); a fresh WaitGroup and semaphore for the page
\* (make panics on a negative capacity).
ListByOrgOk ==
    /\ pc = "list"
    /\ \E n \in 0..(MaxRepos - Len(listed)) :
       \E archived \in ArchivedFlags(Len(listed), n) :
       \E np \in {0} \cup (IF Len(pagesRequested) + 1 < MaxPages
                           THEN {Max(optsPage, 1) + 1} ELSE {}) :
          LET page == [i \in 1..n |->
                         [name |-> RepoName(Len(listed) + i),
                          archived |-> archived[i]]]
          IN /\ repos' = page
             /\ listed' = listed \o page
             /\ nextPage' = np
             /\ totalRepos' = AddPage(totalRepos, n)
    /\ pagesRequested' = Append(pagesRequested,
                                [page |-> optsPage, ok |-> TRUE, next |-> nextPage'])
    /\ idx' = 1
    /\ semaphore' = 0
    /\ wg' = 0
    /\ pc' = IF concurrentScans < 0 THEN "panicked" ELSE "loop"
    /\ UNCHANGED <<canvasVars, connVars, pureVars, runVars, scannerVars, optsPage, ret, activeRoutines, maxRoutines,
                   results, resultMutex, scanErrors, errorMutex, taskVars,
                   served, scanned, calls, launches, peak>>

\* Mutant: the exclusion set is never consulted.
IsExcludedNever(name) == FALSE

\* _, ok := s.excludedRepos[name]
IsExcluded(name) == name \in excludedRepos

\* if _, ok := s.excludedRepos[*repo.Name]; ok { continue }
SkipExcluded ==
    /\ pc = "loop"
    /\ idx <= Len(repos)
    /\ IsExcluded(repos[idx].name)
    /\ idx' = idx + 1
    /\ UNCHANGED <<canvasVars, connVars, pureVars, runVars, scannerVars, pc, optsPage, repos, nextPage, totalRepos, ret,
                   sharedVars, taskVars, historyVars>>

\* Mutant: a send that never blocks (no capacity limit).
CanAcquireUnbounded == TRUE

\* The send on the semaphore channel can proceed.
CanAcquire == semaphore < concurrentScans

\* wg.Add(1); semaphore <- struct{}{}; go func(repo) {...}(repo)
Launch ==
    /\ pc = "loop"
    /\ idx <= Len(repos)
    /\ ~IsExcluded(repos[idx].name)
    /\ CanAcquire
    /\ wg' = wg + 1
    /\ semaphore' = semaphore + 1
    /\ tpc' = [tpc EXCEPT ![repos[idx].name] = "start"]
    /\ launches' = Append(launches, repos[idx].name)
    /\ peak' = Max(peak, Cardinality(InFlightSet) + 1)
    /\ idx' = idx + 1
    /\ UNCHANGED <<canvasVars, connVars, pureVars, runVars, scannerVars, pc, optsPage, repos, nextPage, totalRepos, ret,
                   activeRoutines, maxRoutines, results, resultMutex,
                   scanErrors, errorMutex, routines, loaded, workflows,
                   scanErr, snapshot, listed, served, scanned,
                   pagesRequested, calls>>

\* Mutant: the barrier does not wait.
WaitGroupIgnored == TRUE

\* wg.Wait() returns.
WaitGroupDone == wg = 0

\* Mutant: opts.Page is not advanced to resp.NextPage.
WaitKeepsPage ==
    /\ pc = "loop"
    /\ idx > Len(repos)
    /\ WaitGroupDone
    /\ IF nextPage = 0
       THEN pc' = "finish" /\ optsPage' = optsPage
       ELSE pc' = "list" /\ optsPage' = optsPage
    /\ UNCHANGED <<canvasVars, connVars, pureVars, runVars, scannerVars, repos, nextPage, idx, totalRepos, ret,
                   sharedVars, taskVars, historyVars>>

\* wg.Wait() after the range loop; break when resp.NextPage == 0,
\* else opts.Page = resp.NextPage and list again.
Wait ==
    /\ pc = "loop"
    /\ idx > Len(repos)
    /\ WaitGroupDone
    /\ IF nextPage = 0
       THEN pc' = "finish" /\ optsPage' = optsPage
       ELSE pc' = "list" /\ optsPage' = nextPage
    /\ UNCHANGED <<canvasVars, connVars, pureVars, runVars, scannerVars, repos, nextPage, idx, totalRepos, ret,
                   sharedVars, taskVars, historyVars>>

\* Mutant: the strict policy of the earlier revision, any collected scan
\* error fails the operation.
ReturnStrict ==
    /\ pc = "finish"
    /\ ret' = IF Len(scanErrors) > 0
              THEN [NoReturn EXCEPT !.returned = TRUE,
                                    !.err = "encountered errors during scan"]
              ELSE [returned |-> TRUE, resultNil |-> FALSE, Workflows |-> results,
                    TotalRepos |-> totalRepos, ExcludedReposCount |-> 0,
                    MaxConcurrentScans |-> maxRoutines, err |-> ""]
    /\ pc' = "returned"
    /\ UNCHANGED <<canvasVars, connVars, pureVars, runVars, scannerVars, optsPage, repos, nextPage, idx, totalRepos,
                   sharedVars, taskVars, historyVars>>

\* Mutant: collected scan errors are returned next to the result.
ReturnPartial ==
    /\ pc = "finish"
    /\ ret' = [returned |-> TRUE, resultNil |-> FALSE, Workflows |-> results,
               TotalRepos |-> totalRepos, ExcludedReposCount |-> 0,
               MaxConcurrentScans |-> maxRoutines,
               err |-> IF Len(scanErrors) > 0
                       THEN "encountered errors during scan" ELSE ""]
    /\ pc' = "returned"
    /\ UNCHANGED <<canvasVars, connVars, pureVars, runVars, scannerVars, optsPage, repos, nextPage, idx, totalRepos,
                   sharedVars, taskVars, historyVars>>

\* Mutant: a scan that found no workflow is reported as an error.
ReturnNothingFound ==
    /\ pc = "finish"
    /\ ret' = IF results = <<>>
              THEN [NoReturn EXCEPT !.returned = TRUE,
                                    !.err = "no scheduled workflows found"]
              ELSE [returned |-> TRUE, resultNil |-> FALSE, Workflows |-> results,
                    TotalRepos |-> totalRepos, ExcludedReposCount |-> 0,
                    MaxConcurrentScans |-> maxRoutines, err |-> ""]
    /\ pc' = "returned"
    /\ UNCHANGED <<canvasVars, connVars, pureVars, runVars, scannerVars, optsPage, repos, nextPage, idx, totalRepos,
                   sharedVars, taskVars, historyVars>>

\* return &models.ScanResult{...}, nil
Return ==
    /\ pc = "finish"
    /\ ret' = [returned |-> TRUE, resultNil |-> FALSE, Workflows |-> results,
               TotalRepos |-> totalRepos, ExcludedReposCount |-> 0,
               MaxConcurrentScans |-> maxRoutines, err |-> ""]
    /\ pc' = "returned"
    /\ UNCHANGED <<canvasVars, connVars, pureVars, runVars, scannerVars, optsPage, repos, nextPage, idx, totalRepos,
                   sharedVars, taskVars, historyVars>>

\* ------------------------------------------------- the per-repository goroutine
\* routines := atomic.AddInt32(&activeRoutines, 1)
TaskStart(r) ==
    /\ tpc[r] = "start"
    /\ activeRoutines' = activeRoutines + 1
    /\ routines' = [routines EXCEPT ![r] = activeRoutines + 1]
    /\ tpc' = [tpc EXCEPT ![r] = "loadmax"]
    /\ UNCHANGED <<canvasVars, connVars, pureVars, runVars, scannerVars, mainVars, semaphore, wg, maxRoutines, results,
                   resultMutex, scanErrors, errorMutex, loaded, workflows,
                   scanErr, snapshot, historyVars>>

\* atomic.LoadInt32(&maxRoutines)
TaskLoadMax(r) ==
    /\ tpc[r] = "loadmax"
    /\ loaded' = [loaded EXCEPT ![r] = maxRoutines]
    /\ tpc' = [tpc EXCEPT ![r] = "storemax"]
    /\ UNCHANGED <<canvasVars, connVars, pureVars, runVars, scannerVars, mainVars, sharedVars, routines, workflows,
                   scanErr, snapshot, historyVars>>

\* atomic.StoreInt32(&maxRoutines, max(loaded, routines)); the two locals
\* are not read again except by the debug log line.
TaskStoreMax(r) ==
    /\ tpc[r] = "storemax"
    /\ maxRoutines' = Max(loaded[r], routines[r])
    /\ routines' = [routines EXCEPT ![r] = 0]
    /\ loaded' = [loaded EXCEPT ![r] = 0]
    /\ tpc' = [tpc EXCEPT ![r] = "scan"]
    /\ UNCHANGED <<canvasVars, connVars, pureVars, runVars, scannerVars, mainVars, semaphore, wg, activeRoutines,
                   results, resultMutex, scanErrors, errorMutex,
                   workflows, scanErr, snapshot, historyVars>>

\* workflows, err := s.scanRepository(ctx, repo), against the answers the
\* remote gives for this repository; then the branch on err and
\* len(workflows).
TaskScanFrom(r, answers) ==
    /\ tpc[r] = "scan"
    /\ \E p \in answers :
          LET res == scanRepository(r, p)
          IN /\ served' = [served EXCEPT ![r] = p]
             /\ calls' = [calls EXCEPT ![r] = scanCalls(p)]
             /\ workflows' = [workflows EXCEPT ![r] = res.workflows]
             /\ scanErr' = [scanErr EXCEPT ![r] = res.err]
             /\ tpc' = [tpc EXCEPT ![r] =
                          IF res.err THEN "errlock"
                          ELSE IF Len(res.workflows) > 0 THEN "reslock"
                          ELSE "dec"]
    /\ scanned' = scanned \cup {r}
    /\ UNCHANGED <<canvasVars, connVars, pureVars, runVars, scannerVars, mainVars, sharedVars, routines, loaded,
                   snapshot, listed, pagesRequested, launches, peak>>

TaskScan(r) == TaskScanFrom(r, Profiles)

\* Mutant: the append to scanErrors is not guarded by the mutex.
ErrorMutexIgnored == TRUE

\* errorMutex.Lock() succeeds.
ErrorMutexFree == errorMutex = ""

\* errorMutex.Lock(), and append reads the scanErrors slice.
TaskErrLock(r) ==
    /\ tpc[r] = "errlock"
    /\ ErrorMutexFree
    /\ errorMutex' = r
    /\ snapshot' = [snapshot EXCEPT ![r] = scanErrors]
    /\ tpc' = [tpc EXCEPT ![r] = "errwrite"]
    /\ UNCHANGED <<canvasVars, connVars, pureVars, runVars, scannerVars, mainVars, semaphore, wg, activeRoutines,
                   maxRoutines, results, resultMutex, scanErrors, routines,
                   loaded, workflows, scanErr, historyVars>>

\* Mutant: the slot is given back on the success path only.
ErrorReturnSkipsRelease == "wgdone"

\* Mutant: the early return runs no deferred call.
ErrorReturnSkipsDefers == "finished"

\* Where the goroutine's early return leads: to its deferred calls, the
\* receive from the semaphore first.
ErrorReturn == "release"

\* scanErrors = append(scanErrors, fmt.Errorf("failed to scan repository
\* %s: %w", *repo.Name, err)); errorMutex.Unlock(); return
TaskErrWrite(r) ==
    /\ tpc[r] = "errwrite"
    /\ scanErrors' = Append(snapshot[r],
                            [repo |-> r, cause |-> "failed to list workflows"])
    /\ errorMutex' = IF errorMutex = r THEN "" ELSE errorMutex
    /\ snapshot' = [snapshot EXCEPT ![r] = <<>>]
    /\ tpc' = [tpc EXCEPT ![r] = ErrorReturn]
    /\ UNCHANGED <<canvasVars, connVars, pureVars, runVars, scannerVars, mainVars, semaphore, wg, activeRoutines,
                   maxRoutines, results, resultMutex, routines, loaded,
                   workflows, scanErr, historyVars>>

\* Mutant: the append is not guarded by the mutex.
ResultMutexIgnored == TRUE

\* resultMutex.Lock() succeeds.
ResultMutexFree == resultMutex = ""

\* resultMutex.Lock(), and append reads the results slice.
TaskResLock(r) ==
    /\ tpc[r] = "reslock"
    /\ ResultMutexFree
    /\ resultMutex' = r
    /\ snapshot' = [snapshot EXCEPT ![r] = results]
    /\ tpc' = [tpc EXCEPT ![r] = "reswrite"]
    /\ UNCHANGED <<canvasVars, connVars, pureVars, runVars, scannerVars, mainVars, semaphore, wg, activeRoutines,
                   maxRoutines, results, scanErrors, errorMutex, routines,
                   loaded, workflows, scanErr, historyVars>>

\* results = append(results, workflows...); resultMutex.Unlock()
TaskResWrite(r) ==
    /\ tpc[r] = "reswrite"
    /\ results' = snapshot[r] \o workflows[r]
    /\ resultMutex' = IF resultMutex = r THEN "" ELSE resultMutex
    /\ snapshot' = [snapshot EXCEPT ![r] = <<>>]
    /\ tpc' = [tpc EXCEPT ![r] = "dec"]
    /\ UNCHANGED <<canvasVars, connVars, pureVars, runVars, scannerVars, mainVars, semaphore, wg, activeRoutines,
                   maxRoutines, scanErrors, errorMutex, routines, loaded,
                   workflows, scanErr, historyVars>>

\* atomic.AddInt32(&activeRoutines, -1), reached on the success path only.
TaskDec(r) ==
    /\ tpc[r] = "dec"
    /\ activeRoutines' = activeRoutines - 1
    /\ tpc' = [tpc EXCEPT ![r] = "release"]
    /\ UNCHANGED <<canvasVars, connVars, pureVars, runVars, scannerVars, mainVars, semaphore, wg, maxRoutines, results,
                   resultMutex, scanErrors, errorMutex, routines, loaded,
                   workflows, scanErr, snapshot, historyVars>>

\* defer func() { <-semaphore }()
TaskRelease(r) ==
    /\ tpc[r] = "release"
    /\ semaphore > 0
    /\ semaphore' = semaphore - 1
    /\ tpc' = [tpc EXCEPT ![r] = "wgdone"]
    /\ UNCHANGED <<canvasVars, connVars, pureVars, runVars, scannerVars, mainVars, wg, activeRoutines, maxRoutines,
                   results, resultMutex, scanErrors, errorMutex, routines,
                   loaded, workflows, scanErr, snapshot, historyVars>>

\* defer wg.Done()
TaskWgDone(r) ==
    /\ tpc[r] = "wgdone"
    /\ wg' = wg - 1
    /\ tpc' = [tpc EXCEPT ![r] = "finished"]
    /\ UNCHANGED <<canvasVars, connVars, pureVars, runVars, scannerVars, mainVars, semaphore, activeRoutines,
                   maxRoutines, results, resultMutex, scanErrors, errorMutex,
                   routines, loaded, workflows, scanErr, snapshot, historyVars>>

Next ==
    \/ ListByOrgFail
    \/ ListByOrgOk
    \/ SkipExcluded
    \/ Launch
    \/ Wait
    \/ Return
    \/ \E r \in RepoNames : TaskStart(r)
    \/ \E r \in RepoNames : TaskLoadMax(r)
    \/ \E r \in RepoNames : TaskStoreMax(r)
    \/ \E r \in RepoNames : TaskScan(r)
    \/ \E r \in RepoNames : TaskErrLock(r)
    \/ \E r \in RepoNames : TaskErrWrite(r)
    \/ \E r \in RepoNames : TaskResLock(r)
    \/ \E r \in RepoNames : TaskResWrite(r)
    \/ \E r \in RepoNames : TaskDec(r)
    \/ \E r \in RepoNames : TaskRelease(r)
    \/ \E r \in RepoNames : TaskWgDone(r)

Spec == Init /\ [][Next]_vars

\* The two ways a scan ends: with an error, with workflows.
OutcomeProfiles == {PListErr, PSched}

\* ScanScheduledWorkflows against a remote whose scans have these two
\* outcomes.
OutcomeNext ==
    \/ ListByOrgFail
    \/ ListByOrgOk
    \/ SkipExcluded
    \/ Launch
    \/ Wait
    \/ Return
    \/ \E r \in RepoNames : TaskStart(r)
    \/ \E r \in RepoNames : TaskLoadMax(r)
    \/ \E r \in RepoNames : TaskStoreMax(r)
    \/ \E r \in RepoNames : TaskScanFrom(r, OutcomeProfiles)
    \/ \E r \in RepoNames : TaskErrLock(r)
    \/ \E r \in RepoNames : TaskErrWrite(r)
    \/ \E r \in RepoNames : TaskResLock(r)
    \/ \E r \in RepoNames : TaskResWrite(r)
    \/ \E r \in RepoNames : TaskDec(r)
    \/ \E r \in RepoNames : TaskRelease(r)
    \/ \E r \in RepoNames : TaskWgDone(r)

\* ------------------------------------------------------------------ run()
\* strconv.Atoi on a string given as its characters: an optional sign and
\* then one or more decimal digits.
Digits == <<"0", "1", "2", "3", "4", "5", "6", "7", "8", "9">>

DigitValue(ch) == (CHOOSE i \in DOMAIN Digits : Digits[i] = ch) - 1

IsDigit(ch) == \E i \in DOMAIN Digits : Digits[i] = ch

RECURSIVE DecimalValue(_, _)
DecimalValue(chars, acc) ==
    IF chars = <<>> THEN acc
    ELSE DecimalValue(Tail(chars), 10 * acc + DigitValue(Head(chars)))

Atoi(chars) ==
    LET signed == chars # <<>> /\ Head(chars) \in {"+", "-"}
        body   == IF signed THEN Tail(chars) ELSE chars
    IN IF body = <<>> \/ \E i \in DOMAIN body : ~IsDigit(body[i])
       THEN [ok |-> FALSE, value |-> 0]
       ELSE [ok |-> TRUE,
             value |-> IF signed /\ Head(chars) = "-"
                       THEN 0 - DecimalValue(body, 0)
                       ELSE DecimalValue(body, 0)]

\* Values of the CONCURRENT_SCANS variable (<<>> is unset).
ConcurrentScansInputs == {<<>>, <<"x">>, <<"0">>, <<"-", "1">>, <<"1">>}

\* Values of PUBLISHER_TYPE.
PublisherTypeInputs == {"", "bogus"}

\* The types Factory.CreatePublisher knows.
PublisherTypes == {"slack-canvas", "slack-webhook", "discord-webhook",
                   "json", "html", "console"}

Environments ==
    [GITHUB_ORG : {"", "acme"}, GITHUB_TOKEN : {"", "ghp"},
     CONCURRENT_SCANS : ConcurrentScansInputs,
     PUBLISHER_TYPE : PublisherTypeInputs]

\* ConcurrentScans: 10, replaced by any value Atoi accepts.
ParseConcurrentScans(chars) ==
    IF chars # <<>> /\ Atoi(chars).ok THEN Atoi(chars).value ELSE 10

\* The process starts: nothing is read or built yet.
RunInit ==
    /\ env \in Environments
    /\ cfg = NoConfig
    /\ rpc = "start"
    /\ runErr = ""
    /\ runLog = <<>>
    /\ concurrentScans = 0
    /\ excludedRepos = {}
    /\ pc = "idle"
    /\ optsPage = 0
    /\ repos = <<>>
    /\ nextPage = 0
    /\ idx = 1
    /\ totalRepos = 0
    /\ semaphore = 0
    /\ wg = 0
    /\ activeRoutines = 0
    /\ maxRoutines = 0
    /\ results = <<>>
    /\ resultMutex = ""
    /\ scanErrors = <<>>
    /\ errorMutex = ""
    /\ ret = NoReturn
    /\ tpc = [r \in RepoNames |-> "none"]
    /\ routines = [r \in RepoNames |-> 0]
    /\ loaded = [r \in RepoNames |-> 0]
    /\ workflows = [r \in RepoNames |-> <<>>]
    /\ scanErr = [r \in RepoNames |-> FALSE]
    /\ snapshot = [r \in RepoNames |-> <<>>]
    /\ listed = <<>>
    /\ served = [r \in RepoNames |-> NoProfile]
    /\ scanned = {}
    /\ pagesRequested = <<>>
    /\ calls = [r \in RepoNames |-> <<>>]
    /\ launches = <<>>
    /\ peak = 0
    /\ input = NoInput
    /\ output = NoOutput
    /\ ConnIdle
    /\ CanvasIdle

scanVars == <<scannerVars, mainVars, sharedVars, taskVars, historyVars>>

\* cfg := Config{...}; CONCURRENT_SCANS parsed; PublisherType defaulted.
RunLoadConfig ==
    /\ rpc = "start"
    /\ cfg' = [GitHubOrganization |-> env.GITHUB_ORG,
               GitHubToken |-> env.GITHUB_TOKEN,
               ConcurrentScans |-> ParseConcurrentScans(env.CONCURRENT_SCANS),
               PublisherType |-> IF env.PUBLISHER_TYPE = "" THEN "console"
                                 ELSE env.PUBLISHER_TYPE]
    /\ rpc' = "required"
    /\ UNCHANGED <<canvasVars, connVars, pureVars, env, runErr, runLog, scanVars>>

\* Mutant: the required settings are not tested.
RequiredErrorNone(c) == ""

\* The error of the two required-setting tests, "" when both pass.
RequiredError(c) ==
    IF c.GitHubOrganization = "" THEN "GitHub organization name is required"
    ELSE IF c.GitHubToken = "" THEN "GitHub token is required"
    ELSE ""

\* if cfg.GitHubOrganization == "" {...}; if cfg.GitHubToken == "" {...}
RunCheckRequired ==
    /\ rpc = "required"
    /\ runErr' = RequiredError(cfg)
    /\ rpc' = IF RequiredError(cfg) = "" THEN "connectivity" ELSE "done"
    /\ UNCHANGED <<canvasVars, connVars, pureVars, env, cfg, runLog, scanVars>>

\* connectivityChecker.MustVerifyConnectivity(): panics when the server
\* cannot be reached.
RunVerifyConnectivity ==
    /\ rpc = "connectivity"
    /\ runLog' = Append(runLog, "MustVerifyConnectivity")
    /\ \E reachable \in BOOLEAN :
          rpc' = IF reachable THEN "newscanner" ELSE "panicked"
    /\ UNCHANGED <<canvasVars, connVars, pureVars, env, cfg, runErr, scanVars>>

\* scanner := initializeScanner(cfg)
RunInitializeScanner ==
    /\ rpc = "newscanner"
    /\ concurrentScans' = cfg.ConcurrentScans
    /\ \E file \in ExcludeFiles : excludedRepos' = NewScannerExcluded(file)
    /\ runLog' = Append(runLog, "NewScanner")
    /\ rpc' = "scan"
    /\ UNCHANGED <<canvasVars, connVars, pureVars, env, cfg, runErr, mainVars, sharedVars, taskVars, historyVars>>

\* result, err := scanner.ScanScheduledWorkflows(cfg.GitHubOrganization)
RunScan ==
    /\ rpc = "scan"
    /\ pc = "idle"
    /\ pc' = "list"
    /\ runLog' = Append(runLog, "ScanScheduledWorkflows")
    /\ rpc' = "scanning"
    /\ UNCHANGED <<canvasVars, connVars, pureVars, env, cfg, runErr, scannerVars, optsPage, repos, nextPage,
                   idx, totalRepos, ret, sharedVars, taskVars, historyVars>>

RunScanReturnedIgnoresError ==
    /\ rpc = "scanning"
    /\ pc = "returned"
    /\ runErr' = ""
    /\ rpc' = "publisher"
    /\ UNCHANGED <<canvasVars, connVars, pureVars, env, cfg, runLog, scanVars>>

\* if err != nil { return fmt.Errorf("workflow scan failed: %w", err) }
RunScanReturned ==
    /\ rpc = "scanning"
    /\ pc = "returned"
    /\ runErr' = IF ret.err # "" THEN "workflow scan failed" ELSE ""
    /\ rpc' = IF ret.err # "" THEN "done" ELSE "publisher"
    /\ UNCHANGED <<canvasVars, connVars, pureVars, env, cfg, runLog, scanVars>>

\* pub, err := initializePublisher(cfg.PublisherType, cfg)
RunInitializePublisher ==
    /\ rpc = "publisher"
    /\ runLog' = Append(runLog, "CreatePublisher")
    /\ runErr' = IF cfg.PublisherType \in PublisherTypes THEN ""
                  ELSE "failed to initialize publisher"
    /\ rpc' = IF cfg.PublisherType \in PublisherTypes THEN "publish" ELSE "done"
    /\ UNCHANGED <<canvasVars, connVars, pureVars, env, cfg, scanVars>>

\* if err := pub.PublishScanResult(result); err != nil {...}; return nil
RunPublish ==
    /\ rpc = "publish"
    /\ runLog' = Append(runLog, "PublishScanResult")
    /\ \E published \in BOOLEAN :
          runErr' = IF published THEN "" ELSE "failed to publish results"
    /\ rpc' = "done"
    /\ UNCHANGED <<canvasVars, connVars, pureVars, env, cfg, scanVars>>

RunNext ==
    \/ RunLoadConfig
    \/ RunCheckRequired
    \/ RunVerifyConnectivity
    \/ RunInitializeScanner
    \/ RunScan
    \/ RunScanReturned
    \/ RunInitializePublisher
    \/ RunPublish
    \/ OutcomeNext

\* One execution of the program.
RunSpec == RunInit /\ [][RunNext]_vars

\* ------------------------------------------- one scan against a wide remote
\* A remote call of scanRepository that never responds: the calls carry
\* context.Background(), which has no deadline and is never cancelled.
TaskHang(r) ==
    /\ tpc[r] = "scan"
    /\ tpc' = [tpc EXCEPT ![r] = "hung"]
    /\ calls' = [calls EXCEPT ![r] = <<[op |-> "ListWorkflows", wf |-> 0]>>]
    /\ UNCHANGED <<canvasVars, connVars, pureVars, runVars, scannerVars, mainVars, sharedVars, routines, loaded,
                   workflows, scanErr, snapshot, listed, served, scanned,
                   pagesRequested, launches, peak>>

HangNext == Next \/ \E r \in RepoNames : TaskHang(r)

\* Every workflow shape the remote can serve for one path.
WideWorkflows ==
    { Workflow("w.yml", 9, c, d, r, cm, "dave", u) :
        c \in {"ok", "fetcherr"},
        d \in {DocInvalid, DocNoSchedule, DocOneCron, DocTwoCron},
        r \in {"err", "none", "completed", "failure"},
        cm \in {"err", "none", "noauthor", "anonymous", "nologin", "login"},
        u \in {"err", "nil", "ok"} }

\* ListWorkflows fails, or returns one workflow, or that workflow followed
\* by a healthy scheduled one.
WideProfiles ==
    {PListErr}
    \cup { Profile(FALSE, <<wf>>) : wf \in WideWorkflows }
    \cup { Profile(FALSE, <<wf, WfSched>>) : wf \in WideWorkflows }

\* The goroutine of the only listed repository is about to call
\* scanRepository (one slot, no exclusion file, a single page).
ScanInit ==
    /\ concurrentScans = 1
    /\ excludedRepos = {}
    /\ pc = "loop"
    /\ optsPage = 0
    /\ repos = <<[name |-> RepoName(1), archived |-> FALSE]>>
    /\ nextPage = 0
    /\ idx = 2
    /\ totalRepos = 1
    /\ semaphore = 1
    /\ wg = 1
    /\ activeRoutines = 1
    /\ maxRoutines = 1
    /\ results = <<>>
    /\ resultMutex = ""
    /\ scanErrors = <<>>
    /\ errorMutex = ""
    /\ ret = NoReturn
    /\ tpc = [r \in RepoNames |-> IF r = RepoName(1) THEN "scan" ELSE "none"]
    /\ routines = [r \in RepoNames |-> 0]
    /\ loaded = [r \in RepoNames |-> 0]
    /\ workflows = [r \in RepoNames |-> <<>>]
    /\ scanErr = [r \in RepoNames |-> FALSE]
    /\ snapshot = [r \in RepoNames |-> <<>>]
    /\ listed = <<[name |-> RepoName(1), archived |-> FALSE]>>
    /\ served = [r \in RepoNames |-> NoProfile]
    /\ scanned = {}
    /\ pagesRequested = <<[page |-> 0, ok |-> TRUE, next |-> 0]>>
    /\ calls = [r \in RepoNames |-> <<>>]
    /\ launches = <<RepoName(1)>>
    /\ peak = 1
    /\ input = NoInput
    /\ output = NoOutput
    /\ ConnIdle
    /\ CanvasIdle
    /\ env = NoEnv
    /\ cfg = NoConfig
    /\ rpc = "scanning"
    /\ runErr = ""
    /\ runLog = <<>>

ScanNext ==
    \/ \E r \in RepoNames : TaskScanFrom(r, WideProfiles)
    \/ \E r \in RepoNames : TaskErrLock(r)
    \/ \E r \in RepoNames : TaskErrWrite(r)
    \/ \E r \in RepoNames : TaskResLock(r)
    \/ \E r \in RepoNames : TaskResWrite(r)
    \/ \E r \in RepoNames : TaskDec(r)
    \/ \E r \in RepoNames : TaskRelease(r)
    \/ \E r \in RepoNames : TaskWgDone(r)
    \/ Wait
    \/ Return

\* One repository scanned against every remote answer.
ScanSpec == ScanInit /\ [][ScanNext]_vars

\* ------------------------------------------------ extractSchedules on its own
\* What an element of the schedule array can be.
EntryKinds ==
    {EntryCron("0 0 * * *"), EntryCron("0 12 * * *"), EntryNoCron,
     EntryIntCron, EntryScalar}

RECURSIVE EntrySeqs(_)
EntrySeqs(n) ==
    IF n = 0 THEN {<<>>}
    ELSE EntrySeqs(n - 1)
         \cup {Append(q, e) : q \in {x \in EntrySeqs(n - 1) : Len(x) = n - 1},
                              e \in EntryKinds}

\* Parsed documents: no on key or an on value that is no mapping, an on
\* mapping without schedule or with a schedule that is no array, and
\* schedule arrays of up to MaxEntries elements.
ExtractDocs ==
    {DocNoOn, DocOnString, DocNoSchedule}
    \cup {[isMap |-> TRUE, onKind |-> "map", schedKind |-> k, entries |-> <<>>] :
            k \in {"string", "map"}}
    \cup {[isMap |-> TRUE, onKind |-> "map", schedKind |-> "list", entries |-> q] :
            q \in EntrySeqs(MaxEntries)}

ExtractInit ==
    /\ input \in ExtractDocs
    /\ output = NoOutput
    /\ ConnIdle
    /\ CanvasIdle
    /\ env = NoEnv
    /\ cfg = NoConfig
    /\ rpc = "start"
    /\ runErr = ""
    /\ runLog = <<>>
    /\ concurrentScans = 0
    /\ excludedRepos = {}
    /\ pc = "idle"
    /\ optsPage = 0
    /\ repos = <<>>
    /\ nextPage = 0
    /\ idx = 1
    /\ totalRepos = 0
    /\ semaphore = 0
    /\ wg = 0
    /\ activeRoutines = 0
    /\ maxRoutines = 0
    /\ results = <<>>
    /\ resultMutex = ""
    /\ scanErrors = <<>>
    /\ errorMutex = ""
    /\ ret = NoReturn
    /\ tpc = [r \in RepoNames |-> "none"]
    /\ routines = [r \in RepoNames |-> 0]
    /\ loaded = [r \in RepoNames |-> 0]
    /\ workflows = [r \in RepoNames |-> <<>>]
    /\ scanErr = [r \in RepoNames |-> FALSE]
    /\ snapshot = [r \in RepoNames |-> <<>>]
    /\ listed = <<>>
    /\ served = [r \in RepoNames |-> NoProfile]
    /\ scanned = {}
    /\ pagesRequested = <<>>
    /\ calls = [r \in RepoNames |-> <<>>]
    /\ launches = <<>>
    /\ peak = 0

\* got := extractSchedules(tt.workflow)
ExtractSchedulesCall ==
    /\ ~output.called
    /\ output' = [called |-> TRUE, value |-> extractSchedules(input)]
    /\ UNCHANGED <<canvasVars, connVars, input, runVars, scanVars>>

ExtractNext == ExtractSchedulesCall

ExtractSpec == ExtractInit /\ [][ExtractNext]_vars

\* ------------------------------------------- the connectivity check alone
\* The Scanner and run() are not started.
ScanIdle ==
    /\ concurrentScans = 0
    /\ excludedRepos = {}
    /\ pc = "idle"
    /\ optsPage = 0
    /\ repos = <<>>
    /\ nextPage = 0
    /\ idx = 1
    /\ totalRepos = 0
    /\ semaphore = 0
    /\ wg = 0
    /\ activeRoutines = 0
    /\ maxRoutines = 0
    /\ results = <<>>
    /\ resultMutex = ""
    /\ scanErrors = <<>>
    /\ errorMutex = ""
    /\ ret = NoReturn
    /\ tpc = [r \in RepoNames |-> "none"]
    /\ routines = [r \in RepoNames |-> 0]
    /\ loaded = [r \in RepoNames |-> 0]
    /\ workflows = [r \in RepoNames |-> <<>>]
    /\ scanErr = [r \in RepoNames |-> FALSE]
    /\ snapshot = [r \in RepoNames |-> <<>>]
    /\ listed = <<>>
    /\ served = [r \in RepoNames |-> NoProfile]
    /\ scanned = {}
    /\ pagesRequested = <<>>
    /\ calls = [r \in RepoNames |-> <<>>]
    /\ launches = <<>>
    /\ peak = 0

RunIdle ==
    /\ env = NoEnv
    /\ cfg = NoConfig
    /\ rpc = "start"
    /\ runErr = ""
    /\ runLog = <<>>

\* Values of Config.BaseURL: a server URL, the URL of
\* TestVerifyConnectivityInvalidURL, an unset GITHUB_BASE_URL and a host
\* name without a scheme.
BaseURLs == {"https://ghes.example.com", "://invalid-url", "", "ghes.example.com"}

\* url.Parse: the error, and the Scheme and Host of the parsed URL.
urlParse(base) ==
    CASE base = "https://ghes.example.com" ->
           [err |-> FALSE, Scheme |-> "https", Host |-> "ghes.example.com"]
      [] base = "://invalid-url" -> [err |-> TRUE, Scheme |-> "", Host |-> ""]
      [] OTHER -> [err |-> FALSE, Scheme |-> "", Host |-> ""]

\* http.NewRequestWithContext on Scheme://Host/api/v3/meta fails when the
\* URL has no protocol scheme.
NewRequestFails(baseURL) == baseURL.Scheme = ""

\* The default NewChecker gives MaxRetries.
DefaultMaxRetries == 3

NewChecker(config) ==
    [config EXCEPT !.MaxRetries =
        IF config.MaxRetries <= 0 THEN DefaultMaxRetries ELSE config.MaxRetries]

\* What one c.client.Do(req) of VerifyConnectivity can end in: a 2xx
\* response with or without a readable body, another status, a network
\* error, and the client's Timeout.
SuccessOutcomes == {"2xx", "2xx-badbody"}

FailureOutcomes == {"non2xx", "neterr", "timeout"}

AttemptOutcomes == SuccessOutcomes \cup FailureOutcomes

\* What the request of GetServerInfo can end in.
InfoOutcomes == {"info-ok", "info-err"}

ConnInit ==
    /\ \E base \in BaseURLs, max \in 0..MaxAttempts :
         checkerConfig = NewChecker([BaseURL |-> base, MaxRetries |-> max])
    /\ cpc = "start"
    /\ attempt = 0
    /\ connLog = <<>>
    /\ connErr = ""
    /\ input = NoInput
    /\ output = NoOutput
    /\ CanvasIdle
    /\ RunIdle
    /\ ScanIdle

connRest == <<canvasVars, pureVars, runVars, scanVars>>

\* baseURL, err := url.Parse(c.config.BaseURL)
ConnParse ==
    /\ cpc = "start"
    /\ IF urlParse(checkerConfig.BaseURL).err
       THEN /\ connErr' = "invalid GitHub Enterprise Server URL"
            /\ cpc' = "returned"
            /\ UNCHANGED attempt
       ELSE /\ attempt' = 1
            /\ cpc' = "loop"
            /\ UNCHANGED connErr
    /\ UNCHANGED <<checkerConfig, connLog, connRest>>

\* req, err := http.NewRequestWithContext(...) with err != nil
ConnRequestError ==
    /\ cpc = "loop"
    /\ attempt <= checkerConfig.MaxRetries
    /\ NewRequestFails(urlParse(checkerConfig.BaseURL))
    /\ connErr' = "failed to create request"
    /\ cpc' = "returned"
    /\ UNCHANGED <<checkerConfig, attempt, connLog, connRest>>

ShouldSleepAlways(n, max) == TRUE

\* if attempt < c.config.MaxRetries { time.Sleep(sleepDuration) }
ShouldSleep(n, max) == n < max

\* resp, err := c.client.Do(req) and the branches on its result.
ConnAttempt(outcome) ==
    /\ cpc = "loop"
    /\ attempt <= checkerConfig.MaxRetries
    /\ ~NewRequestFails(urlParse(checkerConfig.BaseURL))
    /\ connLog' = Append(connLog, outcome)
    /\ IF outcome \in SuccessOutcomes
       THEN /\ cpc' = "returned"
            /\ UNCHANGED attempt
       ELSE IF ShouldSleep(attempt, checkerConfig.MaxRetries)
       THEN /\ cpc' = "sleep"
            /\ UNCHANGED attempt
       ELSE /\ cpc' = "loop"
            /\ attempt' = attempt + 1
    /\ UNCHANGED <<checkerConfig, connErr, connRest>>

\* time.Sleep(sleepDuration) returns and the loop advances.
ConnSleep ==
    /\ cpc = "sleep"
    /\ connLog' = Append(connLog, "sleep")
    /\ attempt' = attempt + 1
    /\ cpc' = "loop"
    /\ UNCHANGED <<checkerConfig, connErr, connRest>>

\* The loop ends: failed to connect after MaxRetries attempts.
ConnExhausted ==
    /\ cpc = "loop"
    /\ attempt > checkerConfig.MaxRetries
    /\ connErr' = "failed to connect to GitHub Enterprise Server"
    /\ cpc' = "returned"
    /\ UNCHANGED <<checkerConfig, attempt, connLog, connRest>>

\* if err := c.VerifyConnectivity(); err != nil { panic(...) }
ConnMustCheck ==
    /\ cpc = "returned"
    /\ cpc' = IF connErr # "" THEN "panicked" ELSE "info"
    /\ UNCHANGED <<checkerConfig, attempt, connLog, connErr, connRest>>

ConnGetServerInfoFatal(outcome) ==
    /\ cpc = "info"
    /\ connLog' = Append(connLog, outcome)
    /\ cpc' = IF outcome = "info-err" THEN "panicked" ELSE "passed"
    /\ UNCHANGED <<checkerConfig, attempt, connErr, connRest>>

\* info, err := c.GetServerInfo(): an error is logged as a warning.
ConnGetServerInfo(outcome) ==
    /\ cpc = "info"
    /\ connLog' = Append(connLog, outcome)
    /\ cpc' = "passed"
    /\ UNCHANGED <<checkerConfig, attempt, connErr, connRest>>

ConnNext ==
    \/ ConnParse
    \/ ConnRequestError
    \/ \E outcome \in AttemptOutcomes : ConnAttempt(outcome)
    \/ ConnSleep
    \/ ConnExhausted
    \/ ConnMustCheck
    \/ \E outcome \in InfoOutcomes : ConnGetServerInfo(outcome)

ConnSpec == ConnInit /\ [][ConnNext]_vars

\* --------------------------------------------- the Slack canvas publisher
maxRetries == 3

\* initialBackoff, in seconds.
initialBackoff == 1

backoffFactor == 2

httpStatusTooManyRequests == 429

\* strings.HasPrefix on strings given as their characters.
HasPrefix(s, prefix) ==
    Len(s) >= Len(prefix) /\ SubSeq(s, 1, Len(prefix)) = prefix

BotPrefix == <<"x", "o", "x", "b", "-">>

\* Slack tokens: none, an app token, a cut-off prefix, a bot token.
ApiTokens == {<<>>, <<"x", "a", "p", "p", "-", "t">>, <<"x", "o", "x", "b">>,
              <<"x", "o", "x", "b", "-", "t">>}

CanvasConfigs ==
    [apiToken : ApiTokens, channelID : {"", "C1"}, canvasID : {"", "F1"}]

\* The configuration of newTestPublisherWithMockClient.
TestCanvasConfig ==
    [apiToken |-> <<"x", "o", "x", "b", "-", "t">>, channelID |-> "C1",
     canvasID |-> "F1"]

ConfigErrorNoPrefixTest(config) ==
    IF config.apiToken = <<>>
    THEN "invalid configuration: missing Slack API token"
    ELSE IF config.channelID = ""
    THEN "invalid configuration: missing Slack channel ID"
    ELSE IF config.canvasID = ""
    THEN "invalid configuration: missing Canvas ID"
    ELSE ""

\* The four checks PublishScanResult makes before anything else, "" when
\* all of them pass.
ConfigError(config) ==
    IF config.apiToken = <<>>
    THEN "invalid configuration: missing Slack API token"
    ELSE IF ~HasPrefix(config.apiToken, BotPrefix)
    THEN "invalid configuration: Slack API token must start with 'xoxb-'"
    ELSE IF config.channelID = ""
    THEN "invalid configuration: missing Slack channel ID"
    ELSE IF config.canvasID = ""
    THEN "invalid configuration: missing Canvas ID"
    ELSE ""

\* What c.httpClient.Do(req) and the read of the body can give: err of Do,
\* the status code, the Retry-After header as its characters, and the body
\* (unreadable, not JSON, or JSON with its ok field).
Response(err, status, retryAfter, body) ==
    [err |-> err, status |-> status, retryAfter |-> retryAfter, body |-> body]

NetworkError == Response(TRUE, 0, <<>>, "none")

Responses ==
    {NetworkError}
    \cup {Response(FALSE, 200, <<>>, b) : b \in {"ok", "notok", "garbage", "unreadable"}}
    \cup {Response(FALSE, httpStatusTooManyRequests, h, "notok") : h \in {<<>>, <<"2">>, <<"0">>}}
    \cup {Response(FALSE, 503, <<>>, b) : b \in {"garbage", "unreadable"}}
    \cup {Response(FALSE, 400, <<>>, "notok")}

HandleResponseRetriesClientError(resp) ==
    IF resp.err THEN "retry"
    ELSE IF resp.body = "unreadable" THEN "failed to read response body"
    ELSE IF resp.status = httpStatusTooManyRequests THEN "ratewait"
    ELSE IF resp.status >= 400 THEN "retry"
    ELSE IF resp.body = "garbage" THEN "failed to decode response body"
    ELSE IF resp.body = "notok" THEN "slack API error (ok=false)"
    ELSE "ok"

\* The branch updateCanvas takes on the result of one request: "retry"
\* (continue), "ratewait" (wait, then continue), "ok" (return nil), or the
\* error it returns.
HandleResponse(resp) ==
    IF resp.err THEN "retry"
    ELSE IF resp.body = "unreadable" THEN "failed to read response body"
    ELSE IF resp.status = httpStatusTooManyRequests THEN "ratewait"
    ELSE IF resp.status >= 500 THEN "retry"
    ELSE IF resp.status >= 400 THEN "client error"
    ELSE IF resp.body = "garbage" THEN "failed to decode response body"
    ELSE IF resp.body = "notok" THEN "slack API error (ok=false)"
    ELSE "ok"

\* waitDuration of the rate-limit branch, in seconds.
WaitDuration(resp, backoff) ==
    LET retryAfterSec == Atoi(resp.retryAfter)
    IN IF retryAfterSec.ok /\ retryAfterSec.value > 0
       THEN retryAfterSec.value
       ELSE backoff

MoreAttemptsOneLess(n) == n < maxRetries

\* attempt <= maxRetries
MoreAttempts(n) == n <= maxRetries

SelectsDoneNever(c) == FALSE

\* case <-ctx.Done() of a select that waits: taken when the context is done
\* before the timer of the other case fires.
SelectsDone(c) == c = "done"

\* PublishScanResult on a publisher of any configuration, or updateCanvas
\* called as TestUpdateCanvas_RetryLogic calls it, under context.Background
\* or a context with a timeout.
CanvasInit ==
    /\ \/ /\ upc = "publish"
          /\ canvasConfig \in CanvasConfigs
          /\ ctx = "background"
       \/ /\ upc = "update"
          /\ canvasConfig = TestCanvasConfig
          /\ ctx \in {"background", "live"}
    /\ canvasAttempt = 0
    /\ currentBackoff = 0
    /\ sent = <<>>
    /\ waited = <<>>
    /\ expiredAt = NotExpired
    /\ canvasErr = ""
    /\ input = NoInput
    /\ output = NoOutput
    /\ ConnIdle
    /\ RunIdle
    /\ ScanIdle

canvasRest == <<connVars, pureVars, runVars, scanVars>>

\* The configuration checks of PublishScanResult, then updateCanvas under
\* context.Background().
CanvasPublish ==
    /\ upc = "publish"
    /\ IF ConfigError(canvasConfig) # ""
       THEN /\ canvasErr' = ConfigError(canvasConfig)
            /\ upc' = "returned"
            /\ UNCHANGED currentBackoff
       ELSE /\ upc' = "top"
            /\ currentBackoff' = initialBackoff
            /\ UNCHANGED canvasErr
    /\ UNCHANGED <<canvasConfig, canvasAttempt, ctx, sent, waited, expiredAt, canvasRest>>

\* updateCanvas(ctx, blocks) up to its loop.
CanvasUpdate ==
    /\ upc = "update"
    /\ upc' = "top"
    /\ currentBackoff' = initialBackoff
    /\ UNCHANGED <<canvasConfig, canvasAttempt, ctx, sent, waited, expiredAt, canvasErr,
                   canvasRest>>

\* The loop condition and the non-blocking select on ctx.Done().
CanvasTop ==
    /\ upc = "top"
    /\ IF ~MoreAttempts(canvasAttempt)
       THEN /\ canvasErr' = "canvas update failed after 4 attempts"
            /\ upc' = "returned"
       ELSE IF ctx = "done"
       THEN /\ canvasErr' = "canvas update cancelled or timed out"
            /\ upc' = "returned"
       ELSE /\ upc' = IF canvasAttempt > 0 THEN "backoff" ELSE "send"
            /\ UNCHANGED canvasErr
    /\ UNCHANGED <<canvasConfig, canvasAttempt, currentBackoff, ctx, sent, waited,
                   expiredAt, canvasRest>>

\* case <-time.After(currentBackoff): the backoff elapses and doubles.
CanvasBackoffElapsed ==
    /\ upc = "backoff"
    /\ ~SelectsDone(ctx)
    /\ waited' = Append(waited, currentBackoff)
    /\ currentBackoff' = currentBackoff * backoffFactor
    /\ upc' = "send"
    /\ UNCHANGED <<canvasConfig, canvasAttempt, ctx, sent, expiredAt, canvasErr, canvasRest>>

\* case <-ctx.Done() of the retry sleep.
CanvasBackoffCancelled ==
    /\ upc = "backoff"
    /\ SelectsDone(ctx)
    /\ canvasErr' = "canvas update retry sleep cancelled or timed out"
    /\ upc' = "returned"
    /\ UNCHANGED <<canvasConfig, canvasAttempt, currentBackoff, ctx, sent, waited,
                   expiredAt, canvasRest>>

\* resp, err := c.httpClient.Do(req) and every branch on the response.
CanvasSend(resp) ==
    /\ upc = "send"
    /\ ctx # "done"
    /\ sent' = Append(sent, resp)
    /\ LET branch == HandleResponse(resp)
       IN CASE branch = "retry" ->
                 /\ canvasAttempt' = canvasAttempt + 1
                 /\ upc' = "top"
                 /\ UNCHANGED canvasErr
            [] branch = "ratewait" ->
                 /\ upc' = "ratewait"
                 /\ UNCHANGED <<canvasAttempt, canvasErr>>
            [] branch = "ok" ->
                 /\ upc' = "returned"
                 /\ UNCHANGED <<canvasAttempt, canvasErr>>
            [] OTHER ->
                 /\ canvasErr' = branch
                 /\ upc' = "returned"
                 /\ UNCHANGED canvasAttempt
    /\ UNCHANGED <<canvasConfig, currentBackoff, ctx, waited, expiredAt, canvasRest>>

\* c.httpClient.Do(req) under a context that is already done: the client
\* returns the context's error and no request leaves.
CanvasSendCancelled ==
    /\ upc = "send"
    /\ ctx = "done"
    /\ canvasAttempt' = canvasAttempt + 1
    /\ upc' = "top"
    /\ UNCHANGED <<canvasConfig, currentBackoff, ctx, sent, waited, expiredAt, canvasErr,
                   canvasRest>>

\* case <-time.After(waitDuration) of the rate-limit branch; continue.
CanvasRateWaitElapsed ==
    /\ upc = "ratewait"
    /\ ~SelectsDone(ctx)
    /\ waited' = Append(waited, WaitDuration(sent[Len(sent)], currentBackoff))
    /\ canvasAttempt' = canvasAttempt + 1
    /\ upc' = "top"
    /\ UNCHANGED <<canvasConfig, currentBackoff, ctx, sent, expiredAt, canvasErr, canvasRest>>

\* case <-ctx.Done() of the rate-limit branch.
CanvasRateWaitCancelled ==
    /\ upc = "ratewait"
    /\ SelectsDone(ctx)
    /\ canvasErr' = "canvas update rate limit wait cancelled or timed out"
    /\ upc' = "returned"
    /\ UNCHANGED <<canvasConfig, canvasAttempt, currentBackoff, ctx, sent, waited,
                   expiredAt, canvasRest>>

\* The context is cancelled or its deadline passes.
CtxExpire ==
    /\ ctx = "live"
    /\ upc \in {"top", "backoff", "send", "ratewait"}
    /\ ctx' = "done"
    /\ expiredAt' = [at |-> upc, sent |-> Len(sent)]
    /\ UNCHANGED <<canvasConfig, upc, canvasAttempt, currentBackoff, sent, waited,
                   canvasErr, canvasRest>>

CanvasNext ==
    \/ CanvasPublish
    \/ CanvasUpdate
    \/ CanvasTop
    \/ CanvasBackoffElapsed
    \/ CanvasBackoffCancelled
    \/ \E resp \in Responses : CanvasSend(resp)
    \/ CanvasSendCancelled
    \/ CanvasRateWaitElapsed
    \/ CanvasRateWaitCancelled
    \/ CtxExpire

CanvasSpec == CanvasInit /\ [][CanvasNext]_vars

\* ----------------------------------------------------- convertToKST alone
\* Strings are given as their characters.
Whitespace == {" ", "\t"}

\* strings.Fields: the maximal runs of non-space characters.
RECURSIVE FieldsFrom(_, _, _)
FieldsFrom(chars, current, done) ==
    IF chars = <<>>
    THEN IF current = <<>> THEN done ELSE Append(done, current)
    ELSE IF Head(chars) \in Whitespace
    THEN FieldsFrom(Tail(chars), <<>>,
                    IF current = <<>> THEN done ELSE Append(done, current))
    ELSE FieldsFrom(Tail(chars), Append(current, Head(chars)), done)

Fields(chars) == FieldsFrom(chars, <<>>, <<>>)

\* fmt.Sprintf("%d", n) for n >= 0.
RECURSIVE Itoa(_)
Itoa(n) ==
    IF n < 10 THEN <<Digits[n + 1]>>
    ELSE Append(Itoa(n \div 10), Digits[(n % 10) + 1])

\* The characters of the model's inputs that strings.ContainsAny rejects in
\* isValidCronExpression (letters and the listed punctuation).
RejectedChars == {"M", "O", "N", "x", "+", "?"}

\* validate of isValidCronExpression.
validate(part, min, max) ==
    IF part = <<"*">> THEN TRUE
    ELSE IF Atoi(part).ok THEN Atoi(part).value >= min /\ Atoi(part).value <= max
    ELSE IF \E i \in DOMAIN part : part[i] \in RejectedChars THEN FALSE
    ELSE TRUE

isValidCronExpression(parts) ==
    /\ Len(parts) = 5
    /\ validate(parts[1], 0, 59)
    /\ validate(parts[2], 0, 23)
    /\ validate(parts[3], 1, 31)
    /\ validate(parts[4], 1, 12)
    /\ validate(parts[5], 0, 6)

newDowNoWrap(dowNum, dayShift) == dowNum + dayShift

\* newDow := (dowNum + dayShift) % 7
newDow(dowNum, dayShift) == (dowNum + dayShift) % 7

\* fmt.Sprintf("%s %d %s %s %s", ...) with the hour already formatted.
RECURSIVE JoinFields(_)
JoinFields(parts) ==
    IF parts = <<>> THEN <<>>
    ELSE IF Len(parts) = 1 THEN parts[1]
    ELSE parts[1] \o <<" ">> \o JoinFields(Tail(parts))

convertToKST(schedule) ==
    LET parts == Fields(schedule)
    IN IF Len(parts) # 5 THEN schedule
       ELSE IF ~isValidCronExpression(parts) THEN schedule
       ELSE IF ~Atoi(parts[2]).ok THEN schedule
       ELSE LET hour        == Atoi(parts[2]).value
                newHour     == (hour + 9) % 24
                dayShift    == (hour + 9) \div 24
                originalDow == parts[5]
                dowNum      == Atoi(originalDow)
                currentDow  ==
                    IF dayShift > 0 /\ originalDow # <<"*">>
                       /\ dowNum.ok /\ dowNum.value >= 0 /\ dowNum.value <= 6
                    THEN Itoa(newDow(dowNum.value, dayShift))
                    ELSE originalDow
            IN JoinFields(<<parts[1], Itoa(newHour), parts[3], parts[4], currentDow>>)

\* Cron fields of the schedules given to convertToKST.
MinuteFields == {<<"0">>, <<"3", "0">>, <<"*", "/", "1", "5">>, <<"6", "0">>}

HourFields ==
    {Itoa(h) : h \in 0..MaxHour}
    \cup {<<"*">>, <<"*", "/", "6">>, <<"+", "1", "5">>, <<"0", "7">>, <<"x">>}

DomFields == {<<"*">>, <<"1">>}

DowFields ==
    {<<"*">>, <<"0">>, <<"3">>, <<"6">>, <<"7">>, <<"+", "6">>,
     <<"1", "-", "5">>, <<"M", "O", "N">>}

\* Five-field schedules, and schedules with four fields, with two spaces
\* between fields and with a tab.
Schedules ==
    {JoinFields(<<m, h, dom, <<"*">>, dow>>) :
        m \in MinuteFields, h \in HourFields, dom \in DomFields, dow \in DowFields}
    \cup {JoinFields(<<<<"0">>, <<"1", "5">>, <<"*">>, <<"*">>>>),
          <<"0", " ", " ", "2", "0", " ", "*", " ", "*", " ", "1">>,
          <<"0", "\t", "2", "0", " ", "*", " ", "*", " ", "6">>,
          <<"i", "n", "v", "a", "l", "i", "d">>}

KSTInit ==
    /\ input \in Schedules
    /\ output = NoOutput
    /\ ConnIdle
    /\ CanvasIdle
    /\ RunIdle
    /\ ScanIdle

\* got := convertToKST(tt.schedule)
ConvertToKSTCall ==
    /\ ~output.called
    /\ output' = [called |-> TRUE, value |-> convertToKST(input)]
    /\ UNCHANGED <<canvasVars, connVars, input, runVars, scanVars>>

KSTNext == ConvertToKSTCall

KSTSpec == KSTInit /\ [][KSTNext]_vars

\* The main goroutine of ScanScheduledWorkflows.
MainStep == ListByOrgFail \/ ListByOrgOk \/ SkipExcluded \/ Launch \/ Wait \/ Return

\* The goroutine started for repository r, its scan answered from answers.
TaskStepFrom(r, answers) ==
    \/ TaskStart(r) \/ TaskLoadMax(r) \/ TaskStoreMax(r)
    \/ TaskScanFrom(r, answers)
    \/ TaskErrLock(r) \/ TaskErrWrite(r) \/ TaskResLock(r) \/ TaskResWrite(r)
    \/ TaskDec(r) \/ TaskRelease(r) \/ TaskWgDone(r)

TaskStep(r) == TaskStepFrom(r, Profiles)

\* Every remote call returns, and the Go scheduler does not stop while some
\* goroutine can take a step (the weakest fairness it provides).
FairSpec == Init /\ [][OutcomeNext]_vars /\ WF_vars(OutcomeNext)

\* The same scheduling, with remote calls that may never respond.
HangSpec ==
    /\ Init /\ [][HangNext]_vars
    /\ WF_vars(MainStep)
    /\ \A r \in RepoNames : WF_vars(TaskStep(r))

TypeOK ==
    /\ concurrentScans \in 1..MaxK
    /\ semaphore \in 0..MaxK
    /\ wg \in 0..MaxRepos

\* ------------------------------------------------------------- properties
Range(seq) == {seq[i] : i \in DOMAIN seq}

Count(seq, x) == Cardinality({i \in DOMAIN seq : seq[i] = x})

\* Repositories whose scan returned an error.
FailedRepos == {r \in scanned : scanErr[r]}

ListingFailed == \E i \in DOMAIN pagesRequested : ~pagesRequested[i].ok

ReturnedResult == ret.returned /\ ~ret.resultNil

\* C1: with a concurrency limit K >= 1, the number of scan tasks that were
\* launched and have not yet finished (given their slot back) never exceeds
\* K under any interleaving, and no task is in flight when a listing page
\* is requested, so the bound also holds across page boundaries.
C1_ConcurrencyBound ==
    /\ Cardinality(InFlightSet) <= concurrentScans
    /\ (pc = "list" => InFlightSet = {})

\* K tasks are in flight while a further eligible repository of the page
\* waits for a slot.
C1_Witness ==
    /\ pc = "loop"
    /\ idx <= Len(repos)
    /\ ~IsExcluded(repos[idx].name)
    /\ Cardinality(InFlightSet) = concurrentScans

\* C2: when no repository scan fails, the returned Workflows holds exactly
\* the scheduled workflows produced by the scan tasks, each once, whatever
\* the interleaving of the appends: nothing is lost and nothing duplicated.
C2_NoLostAppend ==
    (ReturnedResult /\ FailedRepos = {}) =>
        /\ \A r \in RepoNames : \A i \in DOMAIN workflows[r] :
              Count(ret.Workflows, workflows[r][i]) = 1
        /\ \A j \in DOMAIN ret.Workflows :
              \E r \in scanned : ret.Workflows[j] \in Range(workflows[r])

\* Two repositories with a scheduled workflow each were scanned at the same
\* time and the result holds two entries.
C2_Witness ==
    /\ ReturnedResult
    /\ FailedRepos = {}
    /\ Cardinality({r \in scanned : Len(workflows[r]) = 1}) = 2
    /\ Len(ret.Workflows) = 2
    /\ ret.MaxConcurrentScans >= 2

\* Names of the listed repositories with the given property.
ListedArchived == {listed[i].name : i \in {j \in DOMAIN listed : listed[j].archived}}

ListedExcluded == {listed[i].name : i \in {j \in DOMAIN listed : listed[j].name \in excludedRepos}}

ReposIn(seq) == {seq[i].RepoName : i \in DOMAIN seq}

\* C3: for a listed repository whose archived flag is set no scan task is
\* launched, ListWorkflows is never called for it, and no WorkflowInfo with
\* its name reaches the result.
C3_ArchivedNeverScanned ==
    \A r \in ListedArchived :
        /\ tpc[r] = "none"
        /\ r \notin scanned
        /\ r \notin ReposIn(results)
        /\ r \notin ReposIn(ret.Workflows)

\* C4: for a listed repository whose name is in the exclusion set no scan
\* task is launched, ListWorkflows is never called for it, and no
\* WorkflowInfo with its name reaches the result.
C4_ExcludedNeverScanned ==
    \A r \in ListedExcluded :
        /\ tpc[r] = "none"
        /\ r \notin scanned
        /\ r \notin ReposIn(results)
        /\ r \notin ReposIn(ret.Workflows)

\* The scan returned after skipping an excluded repository and scanning
\* another one that has a scheduled workflow.
C4_Witness ==
    /\ ReturnedResult
    /\ ListedExcluded # {}
    /\ ret.Workflows # <<>>

\* C5: the returned ExcludedReposCount is the number of listed
\* repositories skipped because their name is in the exclusion set.
C5_ExcludedCount ==
    ReturnedResult => ret.ExcludedReposCount = Cardinality(ListedExcluded)

\* C6: the returned TotalRepos is the number of repositories returned over
\* all listing pages, archived and excluded ones included.
C6_TotalRepos ==
    ReturnedResult => ret.TotalRepos = Len(listed)

\* The scan returned after two non-empty pages whose repositories include
\* an archived one and an excluded one.
C6_Witness ==
    /\ ReturnedResult
    /\ Len(pagesRequested) = 2
    /\ Len(listed) = 2
    /\ Len(repos) = 1
    /\ ListedArchived # {}
    /\ ListedExcluded # {}

\* C7: every WorkflowInfo collected or returned carries at least one cron
\* expression and comes from a served workflow whose document parsed and
\* yielded a non-empty schedule list; a workflow that parses but yields no
\* cron expression never reaches the result.
C7_NonEmptySchedules ==
    \A info \in Range(results) \cup Range(ret.Workflows) :
        /\ Len(info.CronSchedules) > 0
        /\ \E wf \in Range(served[info.RepoName].workflows) :
              /\ wf.id = info.WorkflowID
              /\ wf.doc.isMap
              /\ extractSchedules(wf.doc) # <<>>

\* The scan returned workflows after scanning a repository that holds a
\* workflow which parses and has no cron expression.
C7_Witness ==
    /\ ReturnedResult
    /\ ret.Workflows # <<>>
    /\ \E r \in scanned : \E wf \in Range(served[r].workflows) :
          wf.content = "ok" /\ wf.doc.isMap /\ extractSchedules(wf.doc) = <<>>

\* C8: when every listing page was fetched and ListWorkflows failed for
\* exactly one scanned repository, the scan returns a result and no error,
\* the result holds every scheduled workflow of the other repositories, and
\* the error collection holds exactly one entry, naming the failed one.
C8_OneFailureTolerated ==
    (ret.returned /\ ~ListingFailed /\ Cardinality(FailedRepos) = 1) =>
        /\ ~ret.resultNil
        /\ ret.err = ""
        /\ \A r \in scanned \ FailedRepos : \A i \in DOMAIN workflows[r] :
              Count(ret.Workflows, workflows[r][i]) = 1
        /\ Len(scanErrors) = 1
        /\ scanErrors[1].repo \in FailedRepos

\* One repository failed and another one contributed a workflow.
C8_Witness ==
    /\ ReturnedResult
    /\ Cardinality(FailedRepos) = 1
    /\ Cardinality(scanned) >= 2
    /\ ret.Workflows # <<>>

\* Some scanned repository served a workflow file that is not a YAML mapping.
InvalidContentServed ==
    \E r \in scanned : \E wf \in Range(served[r].workflows) :
        wf.content = "ok" /\ ~wf.doc.isMap

\* C9: when a listed workflow's content does not parse as a YAML mapping,
\* ScanScheduledWorkflows returns a non-nil error, and a result returned
\* with it has an empty Workflows list.
C9_InvalidContentIsError ==
    (ret.returned /\ InvalidContentServed) =>
        /\ ret.err # ""
        /\ (ret.resultNil \/ ret.Workflows = <<>>)

\* C10: once the fetch of a listing page, the first or a later one, has
\* failed, ScanScheduledWorkflows has returned a nil result with a non-nil
\* error; no partial ScanResult is returned.
C10_ListingFailureNoPartial ==
    ListingFailed =>
        /\ pc = "returned"
        /\ ret.returned
        /\ ret.resultNil
        /\ ret.Workflows = <<>>
        /\ ret.err # ""

\* The second page failed after the first page's scans had collected
\* workflows.
C10_Witness ==
    /\ Len(pagesRequested) = 2
    /\ ~pagesRequested[2].ok
    /\ results # <<>>

\* C11: whenever the listing of a page has failed, no scan task has been
\* launched in the invocation: the failure is entered from discovery only.
C11_NoLaunchBeforeListingFailure ==
    ListingFailed => /\ launches = <<>>
                     /\ \A r \in RepoNames : tpc[r] = "none"

\* C12: once a ScanResult is returned every launched task has finished, no
\* slot and no lock is held, and the shared collection and counts equal the
\* returned ones in every later state.
C12_BarrierBeforeReturn ==
    ReturnedResult =>
        /\ \A r \in RepoNames : tpc[r] \in {"none", "finished"}
        /\ \A i \in DOMAIN launches : tpc[launches[i]] = "finished"
        /\ wg = 0
        /\ resultMutex = "" /\ errorMutex = ""
        /\ ret.Workflows = results
        /\ ret.TotalRepos = totalRepos
        /\ ret.MaxConcurrentScans = maxRoutines

\* A result is returned after two tasks ran and reported workflows.
C12_Witness ==
    /\ ReturnedResult
    /\ Len(launches) = 2
    /\ Len(ret.Workflows) >= 2

\* C13: the number of held slots equals the number of launched tasks that
\* have not yet run their deferred release, on the success and on the
\* failure path alike; between pages no slot is held.
C13_SlotsMatchTasks ==
    /\ semaphore = Cardinality(InFlightSet)
    /\ (pc \in {"list", "finish", "returned"} => semaphore = 0)

\* With one slot, a task whose scan failed has ended and the next
\* repository holds the slot.
C13_Witness ==
    /\ concurrentScans = 1
    /\ \E r \in FailedRepos, q \in RepoNames :
          /\ tpc[r] = "finished"
          /\ InFlight(q)
          /\ semaphore = 1

\* Listed repositories the filter lets through.
Eligible == {listed[i].name : i \in {j \in DOMAIN listed : ~IsExcluded(listed[j].name)}}

\* C14: with fair scheduling and remote calls that return, the invocation
\* eventually returns, and at the return exactly one task has run to its
\* end for every listed repository the filter let through.
C14_EventuallyReturns ==
    /\ <>(ret.returned)
    /\ [](ret.returned =>
            /\ Range(launches) = Eligible
            /\ \A r \in Eligible : Count(launches, r) = 1
            /\ \A r \in Eligible : tpc[r] = "finished" /\ r \in scanned)

\* Returned with one slot after two eligible repositories, one of which
\* failed.
C14_Witness ==
    /\ ret.returned
    /\ concurrentScans = 1
    /\ Cardinality(Eligible) = 2
    /\ FailedRepos # {}
    /\ FailedRepos # Eligible

\* The scan has been entered.
ScanBegun == "ScanScheduledWorkflows" \in Range(runLog)

\* C15: ScanScheduledWorkflows only ever runs with a positive concurrency
\* limit: a non-numeric, zero or negative CONCURRENT_SCANS never reaches it.
C15_PositiveLimit == ScanBegun => concurrentScans >= 1

\* C16: when the organization or the token is missing, run returns a
\* configuration error before the connectivity check, the construction of
\* the Scanner, any listing or scan task and any publish; a configuration
\* error is never returned once one of them has happened.
C16_ConfigErrorFirst ==
    /\ (rpc \notin {"start", "required"}
          /\ (env.GITHUB_ORG = "" \/ env.GITHUB_TOKEN = ""))
        => /\ rpc = "done"
           /\ runErr = RequiredError(cfg) /\ runErr # ""
           /\ runLog = <<>>
           /\ pc = "idle" /\ pagesRequested = <<>> /\ launches = <<>>
    /\ (runErr \in {"GitHub organization name is required",
                    "GitHub token is required"})
        => runLog = <<>> /\ pc = "idle"

\* The token is missing and run has returned its configuration error.
C16_Witness ==
    /\ env.GITHUB_ORG # "" /\ env.GITHUB_TOKEN = ""
    /\ rpc = "done"
    /\ runErr = "GitHub token is required"

\* C17: when a remote call of a scan never responds, the invocation still
\* eventually returns.
C17_HungCallAbandoned ==
    (\E r \in RepoNames : tpc[r] = "hung") ~> ret.returned

\* The WorkflowInfo records a scanned repository produced for the served
\* workflow wf.
InfosOf(r, wf) ==
    {info \in Range(workflows[r]) :
        info.WorkflowID = wf.id /\ info.WorkflowName = wf.name}

\* The scheduled workflows among those served for r.
ScheduledServed(r) ==
    {wf \in Range(served[r].workflows) : checkWorkflowSchedule(wf).isScheduled}

\* C18: a scheduled workflow without runs is emitted with LastStatus
\* "Unknown", one with runs with the status of its newest run.
C18_LastStatusUnknown ==
    \A r \in scanned : \A wf \in ScheduledServed(r) : \A info \in InfosOf(r, wf) :
        /\ (wf.runs = "none" => info.LastStatus = "Unknown")
        /\ (wf.runs \notin {"none", "err"} => info.LastStatus = wf.runs)

\* C19: a scheduled workflow whose path has no commit is emitted with
\* LastCommitter "Unknown" and IsActiveUser false, and no GetUser call is
\* made for it.
C19_NoCommitHistory ==
    \A r \in scanned : \A wf \in ScheduledServed(r) :
        wf.commits = "none" =>
            /\ InfosOf(r, wf) # {}
            /\ \A info \in InfosOf(r, wf) :
                  info.LastCommitter = "Unknown" /\ info.IsActiveUser = FALSE
            /\ Call("GetUser", wf) \notin Range(calls[r])
            /\ Call("ListCommits", wf) \in Range(calls[r])

\* A workflow without commit history was emitted and returned.
C19_Witness ==
    /\ ReturnedResult
    /\ \E r \in scanned : \E wf \in ScheduledServed(r) :
          /\ wf.commits = "none"
          /\ wf.user = "ok"
          /\ InfosOf(r, wf) \subseteq Range(ret.Workflows)
          /\ InfosOf(r, wf) # {}

\* Scheduled workflows for which a run, commit or user fetch failed.
Degraded(wf) ==
    \/ wf.runs = "err"
    \/ wf.commits = "err"
    \/ (wf.commits = "login" /\ wf.user = "err")

C21_AllCronSchedules ==
    \A r \in scanned : \A wf \in ScheduledServed(r) : \A info \in InfosOf(r, wf) :
        info.CronSchedules = extractSchedules(wf.doc)

\* Positions of the schedule entries that are mappings with a string cron.
CronIndexes(doc) ==
    {i \in DOMAIN doc.entries :
        doc.entries[i].isMap /\ doc.entries[i].cronKind = "string"}

\* C22: extractSchedules returns the cron strings of the entries of
\* on.schedule that carry a string cron field, unchanged and in document
\* order (the k-th result is the cron of the k-th such entry), and the empty
\* sequence when on is no mapping or schedule is no array.
C22_ExtractSchedules ==
    output.called =>
        IF input.onKind = "map" /\ input.schedKind = "list"
        THEN /\ Len(output.value) = Cardinality(CronIndexes(input))
             /\ \A k \in DOMAIN output.value :
                   \E i \in CronIndexes(input) :
                      /\ Cardinality({j \in CronIndexes(input) : j <= i}) = k
                      /\ output.value[k] = input.entries[i].cron
        ELSE output.value = <<>>

\* Two different cron strings were extracted around an entry without one.
C22_Witness ==
    /\ output.called
    /\ Len(input.entries) = 3
    /\ 2 \notin CronIndexes(input)
    /\ Len(output.value) = 2
    /\ output.value[1] # output.value[2]

\* C23: the MaxConcurrentScans of the returned ScanResult is the largest
\* number of scan tasks that were in flight at once during the invocation.
C23_WatermarkIsPeak == ReturnedResult => ret.MaxConcurrentScans = peak

\* C24: the reported MaxConcurrentScans never exceeds the limit K, and the
\* active-task counter is zero once every launched task has finished.
C24_WatermarkWithinLimit ==
    /\ (ReturnedResult => ret.MaxConcurrentScans <= concurrentScans)
    /\ ((\A r \in RepoNames : tpc[r] \in {"none", "finished"}) => activeRoutines = 0)

\* Repositories named by the collected errors.
ErrorRepos == {scanErrors[i].repo : i \in DOMAIN scanErrors}

\* C25: a repository whose scan failed gets exactly one entry naming it in
\* the error collection, entries name failed repositories only, and after
\* the barrier the collection has one entry per failed repository.
C25_OneErrorPerFailure ==
    /\ \A r \in RepoNames :
          Cardinality({i \in DOMAIN scanErrors : scanErrors[i].repo = r}) <= 1
    /\ ErrorRepos \subseteq FailedRepos
    /\ (pc \in {"list", "finish", "returned"} =>
          /\ ErrorRepos = FailedRepos
          /\ Len(scanErrors) = Cardinality(FailedRepos))

\* Two scans that were in flight together both failed, and the invocation
\* returned.
C25_Witness ==
    /\ ReturnedResult
    /\ peak = 2
    /\ Cardinality(FailedRepos) = 2
    /\ Len(scanErrors) = 2

\* C26: a workflow whose content cannot be fetched or parsed makes the
\* repository's scan a failure (which the goroutine records), unlike a
\* workflow that parses and has no schedule.
C26_ContentFailureRecorded ==
    \A r \in scanned :
        (\E wf \in Range(served[r].workflows) :
            wf.content # "ok" \/ ~wf.doc.isMap) => scanErr[r]

\* Some scanned repository served a workflow whose content could not be
\* fetched or parsed.
ContentFailureServed ==
    \E r \in scanned : \E wf \in Range(served[r].workflows) :
        wf.content # "ok" \/ ~wf.doc.isMap

\* C27: a result and an error are never returned together, and the
\* operation fails exactly when a listing page could not be fetched:
\* no per-repository failure, of whatever kind, repository or timing,
\* makes it fail.
C27_UniformErrorPolicy ==
    ret.returned =>
        /\ (ret.resultNil <=> ret.err # "")
        /\ (ret.err # "" <=> ListingFailed)

\* A result was returned after one repository's workflow listing failed
\* and another one's workflow content could not be read.
C27_Witness ==
    /\ ReturnedResult
    /\ FailedRepos # {}
    /\ ContentFailureServed

\* Names of the repositories of the current page.
PageNames == {repos[i].name : i \in DOMAIN repos}

\* C28: a listing page is requested only when every launched task has
\* finished, tasks in flight all belong to the current page, and the pages
\* requested are opts.Page = 0 and then each response's NextPage, each
\* once, ending with the response whose NextPage is 0.
C28_PageAfterBarrier ==
    /\ (pc = "list" => \A r \in RepoNames : tpc[r] \in {"none", "finished"})
    /\ \A r \in RepoNames : tpc[r] \notin {"none", "finished"} => r \in PageNames
    /\ (pagesRequested # <<>> => pagesRequested[1].page = 0)
    /\ \A i \in DOMAIN pagesRequested : i > 1 =>
          /\ pagesRequested[i - 1].ok
          /\ pagesRequested[i - 1].next # 0
          /\ pagesRequested[i].page = pagesRequested[i - 1].next
    /\ \A i, j \in DOMAIN pagesRequested :
          i # j => pagesRequested[i].page # pagesRequested[j].page
    /\ (ReturnedResult => pagesRequested[Len(pagesRequested)].next = 0)

\* Two pages were requested and a task ran for a repository of each.
C28_Witness ==
    /\ ReturnedResult
    /\ Len(pagesRequested) = 2
    /\ Len(launches) = 2
    /\ Len(repos) = 1

\* The workflow has a non-empty extracted schedule set.
HasSchedule(wf) ==
    wf.content = "ok" /\ wf.doc.isMap /\ extractSchedules(wf.doc) # <<>>

\* C29: in a repository's scan the first call lists the workflows and is
\* the only listing; the run-history, commit-history and user-lookup calls
\* are made only for workflows with a non-empty schedule set, after the
\* content of that workflow was fetched.
C29_CallOrder ==
    \A r \in scanned :
        /\ calls[r] # <<>>
        /\ calls[r][1].op = "ListWorkflows"
        /\ \A i \in DOMAIN calls[r] : i > 1 => calls[r][i].op # "ListWorkflows"
        /\ \A wf \in Range(served[r].workflows) : \A i \in DOMAIN calls[r] :
              (calls[r][i].wf = wf.id
                 /\ calls[r][i].op \in {"ListWorkflowRuns", "ListCommits", "GetUser"})
              => /\ HasSchedule(wf)
                 /\ \E j \in 1..(i - 1) : calls[r][j] = Call("GetContents", wf)

\* A workflow without schedule was followed by a scheduled one whose
\* committer was looked up.
C29_Witness ==
    \E r \in scanned :
        /\ Len(served[r].workflows) = 2
        /\ served[r].workflows[1].content = "ok"
        /\ served[r].workflows[1].doc = DocNoSchedule
        /\ Call("GetContents", served[r].workflows[1]) \in Range(calls[r])
        /\ Call("GetUser", served[r].workflows[2]) \in Range(calls[r])

\* C30: as long as no listed repository passed the filter no task is
\* launched, and a scan that ends so without a listing failure returns a
\* ScanResult with an empty Workflows list and no error.
C30_NothingEligible ==
    /\ (Eligible = {} => launches = <<>> /\ results = <<>>)
    /\ ((ret.returned /\ ~ListingFailed /\ Eligible = {}) =>
          /\ ~ret.resultNil
          /\ ret.err = ""
          /\ ret.Workflows = <<>>)

\* Two repositories were listed, both were skipped by the filter, and the
\* scan returned.
C30_Witness ==
    /\ ReturnedResult
    /\ Len(listed) = 2
    /\ Eligible = {}

\* The requests and sleeps of VerifyConnectivity, without GetServerInfo's.
VerifyLog == SelectSeq(connLog, LAMBDA e : e \notin InfoOutcomes)

Attempts == Cardinality({i \in DOMAIN VerifyLog : VerifyLog[i] \in AttemptOutcomes})

\* VerifyConnectivity has returned.
Verified == cpc \in {"returned", "info", "passed", "panicked"}

\* The Checker's BaseURL gives a URL a request can be built for.
Usable == LET u == urlParse(checkerConfig.BaseURL) IN ~u.err /\ ~NewRequestFails(u)

AllAttemptsFailed ==
    /\ Attempts = checkerConfig.MaxRetries
    /\ \A i \in DOMAIN VerifyLog : VerifyLog[i] \notin SuccessOutcomes

\* At most MaxRetries attempts; nothing follows a 2xx response; a sleep
\* follows every failed attempt but the MaxRetries-th and nothing else.
AttemptDiscipline ==
    /\ Attempts <= checkerConfig.MaxRetries
    /\ \A i \in DOMAIN VerifyLog :
         /\ VerifyLog[i] \in SuccessOutcomes =>
              i = Len(VerifyLog) /\ Verified /\ connErr = ""
         /\ VerifyLog[i] = "sleep" => i > 1 /\ VerifyLog[i - 1] \in FailureOutcomes
    /\ Verified /\ VerifyLog # <<>> => VerifyLog[Len(VerifyLog)] # "sleep"
    /\ Verified =>
         Cardinality({i \in DOMAIN VerifyLog : VerifyLog[i] = "sleep"})
           = (IF Attempts = 0 THEN 0 ELSE Attempts - 1)

\* C31 (as stated): VerifyConnectivity makes at most MaxRetries attempts,
\* returns nil at the first 2xx response without a further attempt, returns
\* an error if and only if all MaxRetries attempts fail, and sleeps between
\* attempts but not after the last one.
C31_ErrorIffAllAttemptsFail ==
    /\ AttemptDiscipline
    /\ Verified => (connErr # "" <=> AllAttemptsFailed)

\* C31 (amended): with a BaseURL that no request can be built for,
\* VerifyConnectivity returns an error without any attempt; otherwise it
\* makes at most MaxRetries attempts, returns nil at the first 2xx response
\* without a further attempt, returns an error if and only if all MaxRetries
\* attempts fail, and sleeps between attempts but not after the last one.
C31_RetryDiscipline ==
    /\ AttemptDiscipline
    /\ Verified /\ Usable => (connErr # "" <=> AllAttemptsFailed)
    /\ Verified /\ ~Usable => connErr # "" /\ Attempts = 0

C31_Witness ==
    /\ Verified /\ Usable /\ connErr # ""
    /\ checkerConfig.MaxRetries = 3
    /\ Attempts = 3
    /\ Cardinality({i \in DOMAIN VerifyLog : VerifyLog[i] = "sleep"}) = 2

\* C32: MustVerifyConnectivity panics if and only if VerifyConnectivity
\* returned an error; when it returned nil, a failing GetServerInfo does not
\* panic and the call returns normally.
C32_PanicIffVerifyFails ==
    /\ cpc = "panicked" => connErr # ""
    /\ cpc \in {"info", "passed"} => connErr = ""
    /\ \A i \in DOMAIN connLog :
         connLog[i] \in InfoOutcomes => cpc = "passed" /\ connErr = ""

C32_Witness ==
    /\ cpc = "passed"
    /\ connLog # <<>> /\ connLog[Len(connLog)] = "info-err"

\* The position in runLog of the first invocation of a collaborator, 0 when
\* it was not invoked.
FirstCall(name) ==
    IF name \in Range(runLog)
    THEN CHOOSE i \in DOMAIN runLog :
           runLog[i] = name /\ \A j \in 1..(i - 1) : runLog[j] # name
    ELSE 0

\* C33: in one run the scan starts only after the connectivity check has
\* passed; PublishScanResult is invoked at most once and only after
\* ScanScheduledWorkflows returned without error; when the scan fails,
\* nothing is published and run returns an error.
C33_RunOrder ==
    /\ pc # "idle" =>
         /\ rpc # "panicked"
         /\ Count(runLog, "MustVerifyConnectivity") = 1
         /\ FirstCall("MustVerifyConnectivity") < FirstCall("ScanScheduledWorkflows")
    /\ Count(runLog, "PublishScanResult") <= 1
    /\ "PublishScanResult" \in Range(runLog) =>
         /\ ret.returned /\ ret.err = ""
         /\ FirstCall("ScanScheduledWorkflows") < FirstCall("PublishScanResult")
    /\ ret.returned /\ ret.err # "" /\ rpc = "done" =>
         /\ runErr = "workflow scan failed"
         /\ "PublishScanResult" \notin Range(runLog)

C33_Witness ==
    /\ rpc = "done"
    /\ "ScanScheduledWorkflows" \in Range(runLog)
    /\ ret.returned /\ ret.err # ""
    /\ runErr = "workflow scan failed"

\* The outcomes of one request, as the publisher's contract names them.
RetryableOutcome(resp) ==
    \/ resp.err
    \/ /\ resp.body # "unreadable"
       /\ resp.status >= 500 \/ resp.status = 429

SuccessOutcome(resp) == ~resp.err /\ resp.status = 200 /\ resp.body = "ok"

ClientErrorOutcome(resp) ==
    /\ ~resp.err /\ resp.body # "unreadable"
    /\ resp.status >= 400 /\ resp.status < 500 /\ resp.status # 429

NotOkOutcome(resp) == ~resp.err /\ resp.status = 200 /\ resp.body = "notok"

AllRetryable(n) == \A j \in 1..n : RetryableOutcome(sent[j])

\* C34: updateCanvas sends at most maxRetries+1 = 4 requests; a success
\* after f <= 3 retryable outcomes returns nil after exactly f+1 requests;
\* four retryable outcomes end in 'canvas update failed after 4 attempts'
\* after exactly 4 requests (the context not having expired).
C34_RetryBudget ==
    /\ Len(sent) <= 4
    /\ \A i \in DOMAIN sent :
         SuccessOutcome(sent[i]) /\ AllRetryable(i - 1) =>
            i = Len(sent) /\ upc = "returned" /\ canvasErr = ""
    /\ Len(sent) = 4 /\ AllRetryable(4) /\ upc = "returned" /\ ctx # "done" =>
         canvasErr = "canvas update failed after 4 attempts"
    /\ canvasErr = "canvas update failed after 4 attempts" /\ ctx # "done" =>
         Len(sent) = 4 /\ AllRetryable(4)

C34_Witness ==
    /\ upc = "returned" /\ ctx = "background"
    /\ Len(sent) = 4 /\ AllRetryable(3) /\ SuccessOutcome(sent[4])
    /\ canvasErr = ""

\* C35: a client-error status (4xx other than 429) or a 200 response with
\* ok=false is never retried: updateCanvas returns its error right after
\* that request and sends no further one.
C35_NoRetryOfFinalOutcomes ==
    \A i \in DOMAIN sent :
       /\ ClientErrorOutcome(sent[i]) =>
            i = Len(sent) /\ upc = "returned" /\ canvasErr = "client error"
       /\ NotOkOutcome(sent[i]) =>
            i = Len(sent) /\ upc = "returned"
            /\ canvasErr = "slack API error (ok=false)"

C35_Witness ==
    /\ upc = "returned" /\ canvasErr = "client error"
    /\ Len(sent) = 2 /\ RetryableOutcome(sent[1]) /\ ClientErrorOutcome(sent[2])

\* C36: when the context expires while updateCanvas waits before a retry
\* (the backoff sleep or the rate-limit wait), the only step it takes is to
\* return that wait's cancellation error, and no further request is sent.
C36_CancelledWhileWaiting ==
    /\ expiredAt.at = "backoff" =>
         /\ Len(sent) = expiredAt.sent
         /\ \/ upc = "backoff"
            \/ /\ upc = "returned"
               /\ canvasErr = "canvas update retry sleep cancelled or timed out"
    /\ expiredAt.at = "ratewait" =>
         /\ Len(sent) = expiredAt.sent
         /\ \/ upc = "ratewait"
            \/ /\ upc = "returned"
               /\ canvasErr = "canvas update rate limit wait cancelled or timed out"

C36_Witness ==
    /\ expiredAt = [at |-> "backoff", sent |-> 1]
    /\ upc = "returned"
    /\ Len(sent) = 1 /\ sent[1].status = 503
    /\ canvasErr = "canvas update retry sleep cancelled or timed out"

BadCanvasConfig ==
    \/ canvasConfig.apiToken = <<>>
    \/ ~HasPrefix(canvasConfig.apiToken, <<"x", "o", "x", "b", "-">>)
    \/ canvasConfig.channelID = ""
    \/ canvasConfig.canvasID = ""

\* C37: PublishScanResult returns an 'invalid configuration' error without
\* sending a request when the token is empty or lacks the 'xoxb-' prefix or
\* the channel ID or the canvas ID is empty; a request is sent only when all
\* four checks pass.
C37_ConfigChecksFirst ==
    /\ BadCanvasConfig =>
         /\ sent = <<>>
         /\ \/ upc = "publish"
            \/ /\ upc = "returned"
               /\ canvasErr \in
                    {"invalid configuration: missing Slack API token",
                     "invalid configuration: Slack API token must start with 'xoxb-'",
                     "invalid configuration: missing Slack channel ID",
                     "invalid configuration: missing Canvas ID"}
    /\ sent # <<>> => ~BadCanvasConfig

C37_Witness ==
    /\ upc = "returned" /\ sent = <<>>
    /\ canvasConfig.apiToken = <<"x", "o", "x", "b">>
    /\ canvasErr = "invalid configuration: Slack API token must start with 'xoxb-'"

====
